---- MODULE Spec2Model ----
(***************************************************************************)
(* Model of the resource tracker bot (src/bot.js): the player store, the   *)
(* clash roster, the attack/cast penalty ledger, the dice resolution and   *)
(* the penalty prompt of the attack command with its button handler.       *)
(***************************************************************************)
EXTENDS Integers, Sequences, FiniteSets, Bags, TLC

\* ------------------------------------------------------------------ bounds
\* Spec: caps of the attack counter and of the open penalty prompts.
MaxCount == 3
MaxPrompts == 2
\* SpecWide: cap of the attack and of the cast counter of every player (at
\* most WideCount - 1 prompts are open).
WideCount == 2
\* SpecCast: cap of the cast counters.
MaxCast == 3
\* SpecCheck: the die size, and the cap of the attack and cast counters.
MaxDie == 6
CheckCount == 2
\* resource values kept within -MaxAbs..MaxAbs in the sheet specification
MaxAbs == 30
\* status durations 1..MaxDuration
MaxDuration == 3

\* ------------------------------------------------------------------ inputs
Players == {"11", "22"}
DisplayNames == {"Ann"}
DieSizes == {2}
Modifiers == {-3, 10}
PenaltyChoices == {"gate", "damage50", "damage100", "blind"}
\* getString('penalties') of an option that was not given
NoChoice == "null"
PenaltyTypes == {"attack", "cast"}
\* the inputs of SpecWide
WideDie == {1}
WideModifiers == {10}
WideManual == {NoChoice, "gate", "damage50"}

VARIABLES
    playerData,       \* Map userId -> player record
    activeEncounter,  \* [active, combatants]
    stored,           \* DATA_FILE or the database: [backend, players, encounter]
    attackCounters,   \* Map userId -> count
    castCounters,     \* Map userId -> count
    attackPenalties,  \* Map userId -> [gate, damageReduction, blind]
    castPenalties,    \* Map userId -> [gate, damageReduction, blind]
    prompts,          \* bag of the open penalty prompts (messages with buttons)
                      \* and of the handlers that wait at an await
    reply,            \* what the last handler answered
    attackChoices,    \* history: attack penalty choices applied since the last reset
    untouched         \* history: players with no attack since the last new round

vars == <<playerData, activeEncounter, stored, attackCounters, castCounters,
          attackPenalties, castPenalties, prompts, reply,
          attackChoices, untouched>>

history == <<attackChoices, untouched>>

ledgerVars == <<attackCounters, castCounters, attackPenalties, castPenalties>>

\* ------------------------------------------------------------ Map helpers
EmptyMap == [x \in {} |-> 0]
MapHas(m, k) == k \in DOMAIN m
MapSet(m, k, v) == [x \in (DOMAIN m) \cup {k} |-> IF x = k THEN v ELSE m[x]]
MapDelete(m, k) == [x \in (DOMAIN m) \ {k} |-> m[x]]
\* (map.get(k) || 0)
MapGetOr0(m, k) == IF k \in DOMAIN m THEN m[k] ELSE 0

Min(a, b) == IF a <= b THEN a ELSE b
Max(a, b) == IF a >= b THEN a ELSE b

\* ------------------------------------------------------------ player store
NewPlayer(displayName, characterName) ==
    [username |-> displayName,
     characterName |-> IF characterName = NoChoice THEN displayName ELSE characterName,
     HP |-> 0, MP |-> 0, IP |-> 0, Armor |-> 0, Barrier |-> 0,
     maxHP |-> 0, maxMP |-> 0, maxIP |-> 0, maxArmor |-> 0, maxBarrier |-> 0,
     statusEffects |-> <<>>]

\* initPlayer(userId, displayName, characterName = null), as the new playerData
initPlayer(pd, userId, displayName, characterName) ==
    IF ~MapHas(pd, userId)
    THEN MapSet(pd, userId, NewPlayer(displayName, characterName))
    ELSE MapSet(pd, userId,
            [pd[userId] EXCEPT
                !.username = displayName,
                !.characterName = IF characterName # NoChoice
                                  THEN characterName ELSE @])

\* a stored state is a function on strings: "backend" says which one it
\* is. The JSON document has its top-level keys next to it ("players" and
\* "encounter", or the ids of an early document without "players"); the
\* database has "players", the rows by user_id, and "encounter", the row
\* with id 1, when there is one. A column that is NULL is a key the row does
\* not have
DefaultEncounter == [active |-> FALSE, combatants |-> <<>>]
HasKey(obj, key) == key \in DOMAIN obj

\* a row of the table players without its status effects
rowOfNoStatus(data) ==
    [username |-> data.username, character_name |-> data.characterName,
     hp |-> data.HP, mp |-> data.MP, ip |-> data.IP, armor |-> data.Armor,
     barrier |-> data.Barrier, max_hp |-> data.maxHP, max_mp |-> data.maxMP,
     max_ip |-> data.maxIP, max_armor |-> data.maxArmor,
     max_barrier |-> data.maxBarrier, status_effects |-> <<>>]

\* the parameters of the upsert: the columns of a row of players;
\* status_effects is the JSON of data.statusEffects || []
rowOf(data) ==
    [username |-> data.username, character_name |-> data.characterName,
     hp |-> data.HP, mp |-> data.MP, ip |-> data.IP, armor |-> data.Armor,
     barrier |-> data.Barrier, max_hp |-> data.maxHP, max_mp |-> data.maxMP,
     max_ip |-> data.maxIP, max_armor |-> data.maxArmor,
     max_barrier |-> data.maxBarrier,
     status_effects |-> IF HasKey(data, "statusEffects")
                        THEN data.statusEffects ELSE <<>>]

\* playerData.set(row.user_id, {...}) of loadData
recordOf(row) ==
    [username |-> row.username, characterName |-> row.character_name,
     HP |-> row.hp, MP |-> row.mp, IP |-> row.ip, Armor |-> row.armor,
     Barrier |-> row.barrier, maxHP |-> row.max_hp, maxMP |-> row.max_mp,
     maxIP |-> row.max_ip, maxArmor |-> row.max_armor,
     maxBarrier |-> row.max_barrier,
     statusEffects |-> IF HasKey(row, "status_effects")
                       THEN row.status_effects ELSE <<>>]

\* loadData(): the players and the encounter in memory after reading the
\* stored state st
loadData(st) ==
    IF st.backend = "database"
    THEN [players |-> [id \in DOMAIN st.players |-> recordOf(st.players[id])],
          encounter |->
            IF HasKey(st, "encounter")
            THEN [active |-> st.encounter.active,
                  combatants |-> IF HasKey(st.encounter, "combatants")
                                 THEN st.encounter.combatants ELSE <<>>]
            ELSE DefaultEncounter]
    ELSE [players |-> IF HasKey(st, "players") THEN st.players
                      ELSE [id \in DOMAIN st \ {"backend"} |-> st[id]],
          encounter |-> IF HasKey(st, "encounter") THEN st.encounter
                        ELSE DefaultEncounter]

\* saveData(): the stored state written, or the old one when the write or a
\* query throws (the error is caught and logged). The JSON file is written
\* whole; the database gets one upsert per player in memory, the rows of
\* other ids stay, and the encounter row with id 1 is updated if it exists
saveData(pd, enc, old, ok) ==
    IF ~ok THEN old
    ELSE IF old.backend = "database"
    THEN LET rows == [id \in DOMAIN old.players \cup DOMAIN pd |->
                        IF id \in DOMAIN pd THEN rowOf(pd[id])
                        ELSE old.players[id]]
         IN IF HasKey(old, "encounter")
            THEN [backend |-> "database", players |-> rows, encounter |-> enc]
            ELSE [backend |-> "database", players |-> rows]
    ELSE [backend |-> "file", players |-> pd, encounter |-> enc]

\* deletePlayer(userId): the row is deleted on the database backend when
\* the query succeeds; the JSON file is not written
deletePlayer(old, userId, ok) ==
    IF old.backend = "database" /\ ok
    THEN [old EXCEPT !.players = MapDelete(@, userId)]
    ELSE old

\* -------------------------------------------------------------- the ledger
ZeroPenalty == [gate |-> 0, damageReduction |-> 0, blind |-> FALSE]

\* applyPenalty with "=" for "+=" on damage50
applyPenaltyOverwrite(penalties, choice) ==
    IF choice = "gate" THEN [penalties EXCEPT !.gate = @ + 1]
    ELSE IF choice = "damage50" THEN [penalties EXCEPT !.damageReduction = 50]
    ELSE IF choice = "damage100" THEN [penalties EXCEPT !.damageReduction = @ + 100]
    ELSE IF choice = "blind" THEN [penalties EXCEPT !.blind = TRUE]
    ELSE penalties

\* the if/else-if chain that adds one penalty choice to a penalties object
applyPenalty(penalties, choice) ==
    IF choice = "gate" THEN [penalties EXCEPT !.gate = @ + 1]
    ELSE IF choice = "damage50" THEN [penalties EXCEPT !.damageReduction = @ + 50]
    ELSE IF choice = "damage100" THEN [penalties EXCEPT !.damageReduction = @ + 100]
    ELSE IF choice = "blind" THEN [penalties EXCEPT !.blind = TRUE]
    ELSE penalties

\* effectiveGate without the blind case
effectiveGateNoBlind(penalties) == 1 + penalties.gate

\* penalties.blind ? 3 : (1 + penalties.gate)
effectiveGate(penalties) == IF penalties.blind THEN 3 ELSE 1 + penalties.gate

\* Math.floor(modifier * Math.max(0, 1 - damageReduction / 100)), attack command
attackModifier(modifier, damageReduction) ==
    (modifier * Max(0, 100 - damageReduction)) \div 100

\* Math.floor(modifier * (1 - damageReduction / 100)), button handler
buttonModifier(modifier, damageReduction) ==
    (modifier * (100 - damageReduction)) \div 100

\* classify with "at least the gate" for "above the gate"
classifyGateInclusive(roll1, roll2, gate) ==
    IF roll1 = 1 /\ roll2 = 1 THEN "fumble"
    ELSE IF roll1 = roll2 /\ roll1 > 5 THEN "critical"
    ELSE IF roll1 >= gate /\ roll2 >= gate THEN "hit"
    ELSE "miss"

\* isFumble / isCrit / isHit
classify(roll1, roll2, gate) ==
    LET isFumble == roll1 = 1 /\ roll2 = 1
        isCrit == ~isFumble /\ roll1 = roll2 /\ roll1 > 5
        isHit == IF isFumble THEN FALSE
                 ELSE IF isCrit THEN TRUE
                 ELSE roll1 > gate /\ roll2 > gate
    IN IF isFumble THEN "fumble"
       ELSE IF isCrit THEN "critical"
       ELSE IF isHit THEN "hit" ELSE "miss"

\* the embed of a resolved roll
RollReply(op, user, choice, count, modifier, gate, finalModifier, roll1, roll2) ==
    [kind |-> "roll", op |-> op, user |-> user, manual |-> choice,
     count |-> count,
     modifier |-> modifier, gate |-> gate, finalModifier |-> finalModifier,
     highRoll |-> Max(roll1, roll2), lowRoll |-> Min(roll1, roll2),
     damage |-> Max(roll1, roll2) + finalModifier,
     outcome |-> classify(roll1, roll2, gate)]

\* history of the choices applied for one player since the last reset
NoChoices == [gate |-> 0, damage50 |-> 0, damage100 |-> 0, blind |-> 0]
NoteChoice(h, p, choice) ==
    IF choice \in PenaltyChoices THEN [h EXCEPT ![p][choice] = @ + 1] ELSE h

\* ------------------------------------------------------------------- Init
FreshStore ==
    [backend |-> "file", players |-> EmptyMap,
     encounter |-> [active |-> FALSE, combatants |-> <<>>]]

\* DATABASE_URL is set: the tables as initDatabase creates them
FreshDatabase == [FreshStore EXCEPT !.backend = "database"]

\* a document left by an earlier run: one character in an active clash
ClashStore ==
    [backend |-> "file", players |-> MapSet(EmptyMap, "11",
        [NewPlayer("Ann", "Rowan") EXCEPT !.maxHP = 2, !.HP = 1,
                                          !.maxArmor = 1, !.maxBarrier = 1]),
     encounter |-> [active |-> TRUE, combatants |-> <<"11">>]]

InitStores == {FreshStore, ClashStore}

\* state after the ready event: loadData() of the JSON file
InitFrom(stores) ==
    /\ stored \in stores
    /\ playerData = loadData(stored).players
    /\ activeEncounter = loadData(stored).encounter
    /\ attackCounters = EmptyMap
    /\ castCounters = EmptyMap
    /\ attackPenalties = EmptyMap
    /\ castPenalties = EmptyMap
    /\ prompts = EmptyBag
    /\ reply = [kind |-> "none", op |-> "none", user |-> "none"]
    /\ attackChoices = [p \in Players |-> NoChoices]
    /\ untouched = {}

Init == InitFrom(InitStores)

\* ---------------------------------------------------------------- actions
\* the message with the four penalty buttons; every customId carries
\* penalty_attack_<id>_<dice1>_<dice2>_<modifier>_<choice>
Prompt(userId, dice1, dice2, modifier, blindDisabled) ==
    [userId |-> userId, dice1 |-> dice1, dice2 |-> dice2,
     modifier |-> modifier, blindDisabled |-> blindDisabled]

\* an answer that carries no roll
Note(kind, op, user) == [kind |-> kind, op |-> op, user |-> user]

\* needsPrompt one attack late, and needsPrompt for the second attack only
needsPromptLate(currentCount, manualPenalties) ==
    currentCount > 2 /\ manualPenalties = NoChoice
needsPromptSecondOnly(currentCount, manualPenalties) ==
    currentCount = 2 /\ manualPenalties = NoChoice

\* 2nd+ attack without manual penalty
needsPrompt(currentCount, manualPenalties) ==
    currentCount >= 2 /\ manualPenalties = NoChoice

\* /attack dice1 dice2 modifier [penalties]
Attack(p, displayName, dice1, dice2, modifier, manualPenalties, roll1, roll2) ==
    LET pen0 == IF MapHas(attackPenalties, p) THEN attackPenalties
                ELSE MapSet(attackPenalties, p, ZeroPenalty)
        currentCount == MapGetOr0(attackCounters, p) + 1
        penalties == pen0[p]
        applied == applyPenalty(penalties, manualPenalties)
        gate == effectiveGate(applied)
        finalModifier == attackModifier(modifier, applied.damageReduction)
    IN /\ playerData' = initPlayer(playerData, p, displayName, NoChoice)
       /\ attackCounters' = MapSet(attackCounters, p, currentCount)
       /\ untouched' = untouched \ {p}
       /\ IF needsPrompt(currentCount, manualPenalties)
          THEN /\ roll1 = 1 /\ roll2 = 1
               /\ attackPenalties' = pen0
               /\ prompts' = prompts (+)
                    SetToBag({Prompt(p, dice1, dice2, modifier, penalties.blind)})
               /\ reply' = [kind |-> "prompt", op |-> "attack", user |-> p,
                            manual |-> manualPenalties, count |-> currentCount]
               /\ UNCHANGED attackChoices
          ELSE /\ attackPenalties' = MapSet(pen0, p, applied)
               /\ reply' = RollReply("attack", p, manualPenalties, currentCount,
                                     modifier, gate, finalModifier, roll1, roll2)
               /\ attackChoices' = NoteChoice(attackChoices, p, manualPenalties)
               /\ UNCHANGED prompts
       /\ UNCHANGED <<activeEncounter, stored, castCounters, castPenalties>>

\* Cast with the prompt rule of the attack command
CastWithPrompt(p, displayName, dice1, dice2, modifier, manualPenalties, roll1, roll2) ==
    LET currentCount == MapGetOr0(castCounters, p) + 1
        gate == IF manualPenalties = "gate" THEN 2 ELSE 1
        finalModifier ==
            IF manualPenalties = "damage50" THEN modifier \div 2
            ELSE IF manualPenalties = "damage100" THEN 0
            ELSE modifier
    IN /\ playerData' = initPlayer(playerData, p, displayName, NoChoice)
       /\ castCounters' = MapSet(castCounters, p, currentCount)
       /\ IF needsPrompt(currentCount, manualPenalties)
          THEN /\ prompts' = prompts (+)
                    SetToBag({Prompt(p, dice1, dice2, modifier, FALSE)})
               /\ reply' = [kind |-> "prompt", op |-> "cast", user |-> p,
                            manual |-> manualPenalties, count |-> currentCount]
          ELSE /\ reply' = RollReply("cast", p, manualPenalties, currentCount, modifier, gate,
                                     finalModifier, roll1, roll2)
               /\ UNCHANGED prompts
       /\ UNCHANGED <<activeEncounter, stored, attackCounters, attackPenalties,
                      castPenalties, history>>

\* Cast that takes the multi-cast penalty, 10 MP for the second cast and 20
\* for a later one, from the caster
CastDeductsMP(p, displayName, dice1, dice2, modifier, manualPenalties, roll1, roll2) ==
    LET currentCount == MapGetOr0(castCounters, p) + 1
        gate == IF manualPenalties = "gate" THEN 2 ELSE 1
        finalModifier ==
            IF manualPenalties = "damage50" THEN modifier \div 2
            ELSE IF manualPenalties = "damage100" THEN 0
            ELSE modifier
        pd == initPlayer(playerData, p, displayName, NoChoice)
        extra == IF currentCount = 2 THEN 10
                 ELSE IF currentCount >= 3 THEN 20 ELSE 0
    IN /\ playerData' = MapSet(pd, p, [pd[p] EXCEPT !.MP = @ - extra])
       /\ castCounters' = MapSet(castCounters, p, currentCount)
       /\ reply' = RollReply("cast", p, manualPenalties, currentCount, modifier, gate,
                             finalModifier, roll1, roll2)
       /\ UNCHANGED <<activeEncounter, stored, attackCounters, attackPenalties,
                      castPenalties, prompts, history>>

\* /cast dice1 dice2 modifier [penalties]
Cast(p, displayName, dice1, dice2, modifier, manualPenalties, roll1, roll2) ==
    LET currentCount == MapGetOr0(castCounters, p) + 1
        gate == IF manualPenalties = "gate" THEN 2 ELSE 1
        finalModifier ==
            IF manualPenalties = "damage50" THEN modifier \div 2
            ELSE IF manualPenalties = "damage100" THEN 0
            ELSE modifier
    IN /\ playerData' = initPlayer(playerData, p, displayName, NoChoice)
       /\ castCounters' = MapSet(castCounters, p, currentCount)
       /\ reply' = RollReply("cast", p, manualPenalties, currentCount, modifier, gate,
                             finalModifier, roll1, roll2)
       /\ UNCHANGED <<activeEncounter, stored, attackCounters, attackPenalties,
                      castPenalties, prompts, history>>

\* a refill of every record
RefillAll(pd, combatants) ==
    [id \in DOMAIN pd |->
        [pd[id] EXCEPT !.Armor = pd[id].maxArmor,
                       !.Barrier = pd[id].maxBarrier]]

\* the refill loop of /turn over activeEncounter.combatants
Refill(pd, combatants) ==
    [id \in DOMAIN pd |->
        IF \E i \in 1..Len(combatants) : combatants[i] = id
        THEN [pd[id] EXCEPT !.Armor = pd[id].maxArmor,
                            !.Barrier = pd[id].maxBarrier]
        ELSE pd[id]]

\* Turn that clears the ledgers before it looks at the clash
TurnClearsFirst(requester, ok) ==
    /\ attackCounters' = EmptyMap
    /\ castCounters' = EmptyMap
    /\ attackPenalties' = EmptyMap
    /\ castPenalties' = EmptyMap
    /\ attackChoices' = [p \in Players |-> NoChoices]
    /\ untouched' = Players
    /\ IF ~activeEncounter.active
       THEN /\ reply' = Note("noClash", "turn", requester)
            /\ UNCHANGED <<playerData, stored>>
       ELSE IF Len(activeEncounter.combatants) = 0
       THEN /\ reply' = Note("noCombatants", "turn", requester)
            /\ UNCHANGED <<playerData, stored>>
       ELSE /\ playerData' = Refill(playerData, activeEncounter.combatants)
            /\ stored' = saveData(playerData', activeEncounter, stored, ok)
            /\ reply' = Note("turn", "turn", requester)
    /\ UNCHANGED <<activeEncounter, prompts>>

\* Turn without attackPenalties.clear()
TurnKeepsPenalties(requester, ok) ==
    IF ~activeEncounter.active
    THEN /\ reply' = Note("noClash", "turn", requester)
         /\ UNCHANGED <<playerData, activeEncounter, stored, ledgerVars,
                        prompts, history>>
    ELSE IF Len(activeEncounter.combatants) = 0
    THEN /\ reply' = Note("noCombatants", "turn", requester)
         /\ UNCHANGED <<playerData, activeEncounter, stored, ledgerVars,
                        prompts, history>>
    ELSE /\ attackCounters' = EmptyMap
         /\ castCounters' = EmptyMap
         /\ castPenalties' = EmptyMap
         /\ playerData' = Refill(playerData, activeEncounter.combatants)
         /\ stored' = saveData(playerData', activeEncounter, stored, ok)
         /\ reply' = Note("turn", "turn", requester)
         /\ attackChoices' = [p \in Players |-> NoChoices]
         /\ untouched' = Players
         /\ UNCHANGED <<activeEncounter, prompts, attackPenalties>>

\* /turn
Turn(requester, ok) ==
    IF ~activeEncounter.active
    THEN /\ reply' = Note("noClash", "turn", requester)
         /\ UNCHANGED <<playerData, activeEncounter, stored, ledgerVars,
                        prompts, history>>
    ELSE IF Len(activeEncounter.combatants) = 0
    THEN /\ reply' = Note("noCombatants", "turn", requester)
         /\ UNCHANGED <<playerData, activeEncounter, stored, ledgerVars,
                        prompts, history>>
    ELSE /\ attackCounters' = EmptyMap
         /\ castCounters' = EmptyMap
         /\ attackPenalties' = EmptyMap
         /\ castPenalties' = EmptyMap
         /\ playerData' = Refill(playerData, activeEncounter.combatants)
         /\ stored' = saveData(playerData', activeEncounter, stored, ok)
         /\ reply' = Note("turn", "turn", requester)
         /\ attackChoices' = [p \in Players |-> NoChoices]
         /\ untouched' = Players
         /\ UNCHANGED <<activeEncounter, prompts>>

\* ResetPenalty that deletes both kinds whatever the type
ResetPenaltyBothKinds(requester, type, player, displayName, fetchOk) ==
    /\ attackCounters' = MapDelete(attackCounters, player)
    /\ attackPenalties' = MapDelete(attackPenalties, player)
    /\ attackChoices' = [attackChoices EXCEPT ![player] = NoChoices]
    /\ castCounters' = MapDelete(castCounters, player)
    /\ castPenalties' = MapDelete(castPenalties, player)
    /\ IF fetchOk
       THEN /\ playerData' = initPlayer(playerData, player, displayName, NoChoice)
            /\ reply' = [kind |-> "reset", op |-> "resetpenalty",
                         user |-> requester, player |-> player, type |-> type]
       ELSE /\ reply' = Note("error", "resetpenalty", requester)
            /\ UNCHANGED playerData
    /\ UNCHANGED <<activeEncounter, stored, prompts, untouched>>

\* /resetpenalty type player; fetchOk: guild.members.fetch resolves, else it
\* throws into the handler's catch after the deletes
ResetPenalty(requester, type, player, displayName, fetchOk) ==
    /\ IF type = "attack"
       THEN /\ attackCounters' = MapDelete(attackCounters, player)
            /\ attackPenalties' = MapDelete(attackPenalties, player)
            /\ attackChoices' = [attackChoices EXCEPT ![player] = NoChoices]
            /\ UNCHANGED <<castCounters, castPenalties>>
       ELSE IF type = "cast"
       THEN /\ castCounters' = MapDelete(castCounters, player)
            /\ castPenalties' = MapDelete(castPenalties, player)
            /\ UNCHANGED <<attackCounters, attackPenalties, attackChoices>>
       ELSE UNCHANGED <<ledgerVars, attackChoices>>
    /\ IF fetchOk
       THEN /\ playerData' = initPlayer(playerData, player, displayName, NoChoice)
            /\ reply' = [kind |-> "reset", op |-> "resetpenalty",
                         user |-> requester, player |-> player, type |-> type]
       ELSE /\ reply' = Note("error", "resetpenalty", requester)
            /\ UNCHANGED playerData
    /\ UNCHANGED <<activeEncounter, stored, prompts, untouched>>

\* authorized without the comparison
authorizedAnyone(clicker, userId) == TRUE

\* only the player can click their penalty buttons
authorized(clicker, userId) == clicker = userId

\* a click on the button `penalty` of the open prompt `pr` by `clicker`
PenaltyButton(clicker, pr, penalty, displayName, roll1, roll2) ==
    /\ BagIn(pr, prompts)
    /\ penalty \in PenaltyChoices
    /\ penalty = "blind" => ~pr.blindDisabled
    /\ IF ~authorized(clicker, pr.userId)
       THEN /\ reply' = Note("unauthorized", "button", clicker)
            /\ UNCHANGED <<playerData, prompts, ledgerVars, attackChoices>>
       ELSE /\ playerData' = initPlayer(playerData, pr.userId, displayName, NoChoice)
            /\ IF ~MapHas(attackPenalties, pr.userId)
               THEN \* penalties is undefined: the handler throws a TypeError
                    /\ reply' = Note("unhandled", "button", clicker)
                    /\ UNCHANGED <<prompts, ledgerVars, attackChoices>>
               ELSE LET applied == applyPenalty(attackPenalties[pr.userId], penalty)
                        gate == effectiveGate(applied)
                        finalModifier ==
                            buttonModifier(pr.modifier, applied.damageReduction)
                    IN /\ attackPenalties' =
                            MapSet(attackPenalties, pr.userId, applied)
                       /\ prompts' = prompts (-) SetToBag({pr})
                       /\ reply' = RollReply("button", pr.userId, penalty,
                                             MapGetOr0(attackCounters, pr.userId),
                                             pr.modifier, gate, finalModifier,
                                             roll1, roll2)
                       /\ attackChoices' = NoteChoice(attackChoices, pr.userId,
                                                      penalty)
                       /\ UNCHANGED <<attackCounters, castCounters, castPenalties>>
    /\ UNCHANGED <<activeEncounter, stored, untouched>>

\* interaction.update({ embeds, components: [] }) that the handler of a
\* click on the prompt `pr` has sent and Discord has not applied yet
Edit(pr) == [message |-> pr]
IsEdit(m) == "message" \in DOMAIN m

\* the handler of a click on the button `penalty` of the prompt `pr`, up to
\* its only await: the penalty is added and the dice are rolled, the
\* message keeps its buttons until the update is applied
ButtonHandler(clicker, pr, penalty, displayName, roll1, roll2) ==
    /\ BagIn(pr, prompts)
    /\ ~IsEdit(pr)
    /\ penalty \in PenaltyChoices
    /\ penalty = "blind" => ~pr.blindDisabled
    /\ IF ~authorized(clicker, pr.userId)
       THEN /\ reply' = Note("unauthorized", "button", clicker)
            /\ UNCHANGED <<playerData, prompts, ledgerVars, attackChoices>>
       ELSE /\ playerData' = initPlayer(playerData, pr.userId, displayName, NoChoice)
            /\ IF ~MapHas(attackPenalties, pr.userId)
               THEN /\ reply' = Note("unhandled", "button", clicker)
                    /\ UNCHANGED <<prompts, ledgerVars, attackChoices>>
               ELSE LET applied == applyPenalty(attackPenalties[pr.userId], penalty)
                        gate == effectiveGate(applied)
                        finalModifier ==
                            buttonModifier(pr.modifier, applied.damageReduction)
                    IN /\ attackPenalties' =
                            MapSet(attackPenalties, pr.userId, applied)
                       /\ prompts' = prompts (+) SetToBag({Edit(pr)})
                       /\ reply' = RollReply("button", pr.userId, penalty,
                                             MapGetOr0(attackCounters, pr.userId),
                                             pr.modifier, gate, finalModifier,
                                             roll1, roll2)
                       /\ attackChoices' = NoteChoice(attackChoices, pr.userId,
                                                      penalty)
                       /\ UNCHANGED <<attackCounters, castCounters, castPenalties>>
    /\ UNCHANGED <<activeEncounter, stored, untouched>>

\* Discord applies the update of one handler: the message of `pr` shows the
\* roll and has no buttons any more
ButtonUpdate(pr) ==
    /\ BagIn(Edit(pr), prompts)
    /\ prompts' = (prompts (-) SetToBag({Edit(pr)})) (-) SetToBag({pr})
    /\ reply' = Note("updated", "update", pr.userId)
    /\ UNCHANGED <<playerData, activeEncounter, stored, ledgerVars, history>>

\* Check with the gate of the player's attack penalties added to the input
CheckLedgerGate(requester, player, displayName, dice1, dice2, gate, fetchOk, roll1, roll2) ==
    LET g == IF MapHas(attackPenalties, player)
             THEN gate + attackPenalties[player].gate ELSE gate
    IN /\ IF requester = player \/ fetchOk
          THEN /\ playerData' = initPlayer(playerData, player, displayName, NoChoice)
               /\ reply' = [kind |-> "roll", op |-> "check", user |-> requester,
                            player |-> player, gate |-> g,
                            roll1 |-> roll1, roll2 |-> roll2,
                            outcome |-> classify(roll1, roll2, g)]
          ELSE /\ roll1 = 1 /\ roll2 = 1
               /\ reply' = Note("error", "check", requester)
               /\ UNCHANGED playerData
       /\ UNCHANGED <<activeEncounter, stored, ledgerVars, prompts, history>>

\* /check dice1 dice2 gate [player]; fetchOk: guild.members.fetch of another
\* player resolves, else it throws into the handler's catch
Check(requester, player, displayName, dice1, dice2, gate, fetchOk, roll1, roll2) ==
    /\ IF requester = player \/ fetchOk
       THEN /\ playerData' = initPlayer(playerData, player, displayName, NoChoice)
            /\ reply' = [kind |-> "roll", op |-> "check", user |-> requester,
                         player |-> player, gate |-> gate,
                         roll1 |-> roll1, roll2 |-> roll2,
                         outcome |-> classify(roll1, roll2, gate)]
       ELSE \* no dice are rolled
            /\ roll1 = 1 /\ roll2 = 1
            /\ reply' = Note("error", "check", requester)
            /\ UNCHANGED playerData
    /\ UNCHANGED <<activeEncounter, stored, ledgerVars, prompts, history>>

\* ------------------------------------------------------- resource store
Resources == {"HP", "MP", "IP", "Armor", "Barrier"}
\* data[`max${resource}`]
MaxField == [HP |-> "maxHP", MP |-> "maxMP", IP |-> "maxIP",
             Armor |-> "maxArmor", Barrier |-> "maxBarrier"]
\* resourceMap of the hp, mp, ip, armor and barrier commands
resourceMap == [hp |-> "HP", mp |-> "MP", ip |-> "IP", armor |-> "Armor",
                barrier |-> "Barrier"]

\* strings are sequences of characters
LowerOf == [A |-> "a", B |-> "b", C |-> "c", D |-> "d", E |-> "e", F |-> "f",
            G |-> "g", H |-> "h", I |-> "i", J |-> "j", K |-> "k", L |-> "l",
            M |-> "m", N |-> "n", O |-> "o", P |-> "p", Q |-> "q", R |-> "r",
            S |-> "s", T |-> "t", U |-> "u", V |-> "v", W |-> "w", X |-> "x",
            Y |-> "y", Z |-> "z"]
toLowerCase(str) ==
    [i \in 1..Len(str) |->
        IF str[i] \in DOMAIN LowerOf THEN LowerOf[str[i]] ELSE str[i]]

DigitOf == [c \in {"0", "1", "2", "3", "4", "5", "6", "7", "8", "9"} |->
            CASE c = "0" -> 0 [] c = "1" -> 1 [] c = "2" -> 2 [] c = "3" -> 3
              [] c = "4" -> 4 [] c = "5" -> 5 [] c = "6" -> 6 [] c = "7" -> 7
              [] c = "8" -> 8 [] c = "9" -> 9]
\* a parsed number is <<n>>, NaN is the empty tuple
NaN == <<>>

RECURSIVE skipSpaces(_)
skipSpaces(str) ==
    IF Len(str) > 0 /\ str[1] = " " THEN skipSpaces(Tail(str)) ELSE str

\* the value of the longest prefix of digits of str after acc, NaN when
\* there is no digit at all
RECURSIVE digitsValue(_, _, _)
digitsValue(str, acc, any) ==
    IF Len(str) > 0 /\ str[1] \in DOMAIN DigitOf
    THEN digitsValue(Tail(str), 10 * acc + DigitOf[str[1]], TRUE)
    ELSE IF any THEN <<acc>> ELSE NaN

\* parseInt(str), radix 10 (the strings used here have no 0x prefix)
parseInt(str) ==
    LET t == skipSpaces(str)
        signed == Len(t) > 0 /\ t[1] \in {"-", "+"}
        v == digitsValue(IF signed THEN Tail(t) ELSE t, 0, FALSE)
    IN IF v = NaN THEN NaN
       ELSE IF signed /\ t[1] = "-" THEN <<0 - v[1]>> ELSE v

\* set that refills IP like the other four
upsertMaxRefillsIP(data, displayName, characterName, maxima) ==
    [data EXCEPT !.maxHP = maxima.HP, !.maxMP = maxima.MP,
                 !.maxIP = maxima.IP, !.maxArmor = maxima.Armor,
                 !.maxBarrier = maxima.Barrier,
                 !.HP = maxima.HP, !.MP = maxima.MP, !.IP = maxima.IP,
                 !.Armor = maxima.Armor, !.Barrier = maxima.Barrier,
                 !.username = displayName, !.characterName = characterName]

\* the record after the assignments of the set command
upsertMax(data, displayName, characterName, maxima) ==
    LET currentIP == data.IP
    IN [data EXCEPT !.maxHP = maxima.HP, !.maxMP = maxima.MP,
                    !.maxIP = maxima.IP, !.maxArmor = maxima.Armor,
                    !.maxBarrier = maxima.Barrier,
                    !.HP = maxima.HP, !.MP = maxima.MP, !.IP = currentIP,
                    !.Armor = maxima.Armor, !.Barrier = maxima.Barrier,
                    !.username = displayName, !.characterName = characterName]

\* /set player name hp mp ip armor barrier; fetchOk: guild.members.fetch
\* resolves, else it throws into the handler's catch before any change
Set(requester, player, displayName, characterName, maxima, fetchOk, ok) ==
    /\ IF fetchOk
       THEN LET pd == initPlayer(playerData, player, displayName, characterName)
            IN /\ playerData' = MapSet(pd, player,
                        upsertMax(pd[player], displayName, characterName, maxima))
               /\ stored' = saveData(playerData', activeEncounter, stored, ok)
               /\ reply' = [kind |-> "set", op |-> "set", user |-> requester,
                            player |-> player]
       ELSE /\ reply' = Note("error", "set", requester)
            /\ UNCHANGED <<playerData, stored>>
    /\ UNCHANGED <<activeEncounter, ledgerVars, prompts, history>>

\* += that stays within 0..max
adjustClamped(data, resource, amount) ==
    LET v == data[resource] + amount
    IN [data EXCEPT ![resource] =
            IF v < 0 THEN 0
            ELSE IF v > data[MaxField[resource]] THEN data[MaxField[resource]]
            ELSE v]

\* data[resource] += amount
adjust(data, resource, amount) ==
    [data EXCEPT ![resource] = @ + amount]

\* update that takes the addition back when the save fails
UpdateRollsBack(requester, player, displayName, resource, amount, fetchOk, ok) ==
    /\ IF fetchOk /\ ok
       THEN LET pd == initPlayer(playerData, player, displayName, NoChoice)
            IN /\ playerData' = MapSet(pd, player,
                                       adjust(pd[player], resource, amount))
               /\ stored' = saveData(playerData', activeEncounter, stored, ok)
               /\ reply' = [kind |-> "updated", op |-> "update",
                            user |-> requester, player |-> player,
                            resource |-> resource, amount |-> amount]
       ELSE /\ reply' = Note("error", "update", requester)
            /\ UNCHANGED <<playerData, stored>>
    /\ UNCHANGED <<activeEncounter, ledgerVars, prompts, history>>

\* /update resource amount [player]
Update(requester, player, displayName, resource, amount, fetchOk, ok) ==
    /\ IF fetchOk
       THEN LET pd == initPlayer(playerData, player, displayName, NoChoice)
            IN /\ playerData' = MapSet(pd, player,
                                       adjust(pd[player], resource, amount))
               /\ stored' = saveData(playerData', activeEncounter, stored, ok)
               /\ reply' = [kind |-> "updated", op |-> "update",
                            user |-> requester, player |-> player,
                            resource |-> resource, amount |-> amount]
       ELSE /\ reply' = Note("error", "update", requester)
            /\ UNCHANGED <<playerData, stored>>
    /\ UNCHANGED <<activeEncounter, ledgerVars, prompts, history>>

\* /hp, /mp, /ip, /armor, /barrier amount, for the caller
ResourceCommand(p, displayName, commandName, amountStr, ok) ==
    LET resource == resourceMap[commandName]
        pd == initPlayer(playerData, p, displayName, NoChoice)
        data == pd[p]
        amount == parseInt(amountStr)
    IN /\ IF toLowerCase(amountStr) = <<"f", "u", "l", "l">>
          THEN /\ playerData' = MapSet(pd, p,
                    [data EXCEPT ![resource] = data[MaxField[resource]]])
               /\ stored' = saveData(playerData', activeEncounter, stored, ok)
               /\ reply' = [kind |-> "full", op |-> commandName, user |-> p]
          ELSE IF toLowerCase(amountStr) = <<"z", "e", "r", "o">>
          THEN /\ playerData' = MapSet(pd, p, [data EXCEPT ![resource] = 0])
               /\ stored' = saveData(playerData', activeEncounter, stored, ok)
               /\ reply' = [kind |-> "zero", op |-> commandName, user |-> p]
          ELSE IF amount = NaN
          THEN /\ playerData' = pd
               /\ reply' = Note("invalid", commandName, p)
               /\ UNCHANGED stored
          ELSE /\ playerData' = MapSet(pd, p, adjust(data, resource, amount[1]))
               /\ stored' = saveData(playerData', activeEncounter, stored, ok)
               /\ reply' = [kind |-> "updated", op |-> commandName,
                            user |-> p, player |-> p,
                            resource |-> resource, amount |-> amount[1]]
       /\ UNCHANGED <<activeEncounter, ledgerVars, prompts, history>>

\* rest that also restores IP
restoreAll(data) ==
    [data EXCEPT !.HP = data.maxHP, !.MP = data.maxMP, !.IP = data.maxIP,
                 !.Armor = data.maxArmor, !.Barrier = data.maxBarrier]

\* the record after the assignments of the rest command
restore(data) ==
    [data EXCEPT !.HP = data.maxHP, !.MP = data.maxMP,
                 !.Armor = data.maxArmor, !.Barrier = data.maxBarrier]

\* /rest, for the caller
Rest(p, displayName, ok) ==
    LET pd == initPlayer(playerData, p, displayName, NoChoice)
    IN /\ playerData' = MapSet(pd, p, restore(pd[p]))
       /\ stored' = saveData(playerData', activeEncounter, stored, ok)
       /\ reply' = Note("rested", "rest", p)
       /\ UNCHANGED <<activeEncounter, ledgerVars, prompts, history>>

\* -------------------------------------------------------- status effects
\* findIndex with names compared as they are
findIndexExact(statusEffects, statusName) ==
    LET found == {i \in 1..Len(statusEffects) :
                    statusEffects[i].name = statusName}
    IN IF found = {} THEN 0
       ELSE CHOOSE i \in found : \A j \in found : i <= j

\* statusEffects.findIndex(s => s.name.toLowerCase() ===
\* statusName.toLowerCase()), 1-based, 0 for -1
findIndex(statusEffects, statusName) ==
    LET found == {i \in 1..Len(statusEffects) :
                    toLowerCase(statusEffects[i].name) = toLowerCase(statusName)}
    IN IF found = {} THEN 0
       ELSE CHOOSE i \in found : \A j \in found : i <= j

\* splice that removes the entry and all after it
spliceToEnd(statusEffects, index) == SubSeq(statusEffects, 1, index - 1)

\* statusEffects.splice(index, 1)
splice(statusEffects, index) ==
    [i \in 1..(Len(statusEffects) - 1) |->
        IF i < index THEN statusEffects[i] ELSE statusEffects[i + 1]]

\* member of the player: interaction.member for the caller, else fetched
memberKnown(requester, player, fetchOk) == requester = player \/ fetchOk

\* /status add name duration [player]
StatusAdd(requester, player, displayName, statusName, duration, fetchOk, ok) ==
    /\ IF memberKnown(requester, player, fetchOk)
       THEN LET pd == initPlayer(playerData, player, displayName, NoChoice)
                data == pd[player]
                existingIndex == findIndex(data.statusEffects, statusName)
            IN /\ IF existingIndex # 0
                  THEN /\ playerData' = MapSet(pd, player,
                            [data EXCEPT
                                !.statusEffects[existingIndex].duration = duration])
                       /\ reply' = [kind |-> "statusUpdated", op |-> "status add",
                                    user |-> requester, player |-> player,
                                    name |-> statusName]
                  ELSE /\ playerData' = MapSet(pd, player,
                            [data EXCEPT !.statusEffects =
                                Append(@, [name |-> statusName,
                                           duration |-> duration])])
                       /\ reply' = [kind |-> "statusApplied", op |-> "status add",
                                    user |-> requester, player |-> player,
                                    name |-> statusName]
               /\ stored' = saveData(playerData', activeEncounter, stored, ok)
       ELSE /\ reply' = Note("error", "status add", requester)
            /\ UNCHANGED <<playerData, stored>>
    /\ UNCHANGED <<activeEncounter, ledgerVars, prompts, history>>

\* /status clear name [player]
StatusClear(requester, player, displayName, statusName, fetchOk, ok) ==
    /\ IF memberKnown(requester, player, fetchOk)
       THEN LET pd == initPlayer(playerData, player, displayName, NoChoice)
                data == pd[player]
                index == findIndex(data.statusEffects, statusName)
            IN IF index = 0
               THEN /\ playerData' = pd
                    /\ reply' = [kind |-> "notFound", op |-> "status clear",
                                 user |-> requester, player |-> player,
                                 name |-> statusName]
                    /\ UNCHANGED stored
               ELSE /\ playerData' = MapSet(pd, player,
                            [data EXCEPT !.statusEffects = splice(@, index)])
                    /\ stored' = saveData(playerData', activeEncounter, stored, ok)
                    /\ reply' = [kind |-> "statusRemoved", op |-> "status clear",
                                 user |-> requester, player |-> player,
                                 name |-> statusName]
       ELSE /\ reply' = Note("error", "status clear", requester)
            /\ UNCHANGED <<playerData, stored>>
    /\ UNCHANGED <<activeEncounter, ledgerVars, prompts, history>>

\* a tick that leaves the first entry's duration as it is
decrementedRest(statusEffects) ==
    [i \in 1..Len(statusEffects) |->
        [statusEffects[i] EXCEPT !.duration = IF i = 1 THEN @ ELSE @ - 1]]

\* status.duration -= 1 for every entry
decremented(statusEffects) ==
    [i \in 1..Len(statusEffects) |->
        [statusEffects[i] EXCEPT !.duration = @ - 1]]

\* /tick [player]
Tick(requester, player, displayName, fetchOk, ok) ==
    /\ IF memberKnown(requester, player, fetchOk)
       THEN LET pd == initPlayer(playerData, player, displayName, NoChoice)
                data == pd[player]
                ticked == decremented(data.statusEffects)
                expired == SelectSeq(ticked, LAMBDA e : e.duration <= 0)
                remaining == SelectSeq(ticked, LAMBDA e : e.duration > 0)
            IN IF Len(data.statusEffects) = 0
               THEN /\ playerData' = pd
                    /\ reply' = Note("noStatus", "tick", requester)
                    /\ UNCHANGED stored
               ELSE /\ playerData' = MapSet(pd, player,
                            [data EXCEPT !.statusEffects = remaining])
                    /\ stored' = saveData(playerData', activeEncounter, stored, ok)
                    /\ reply' = [kind |-> "ticked", op |-> "tick",
                                 user |-> requester, player |-> player,
                                 expired |-> [i \in 1..Len(expired) |->
                                                expired[i].name]]
       ELSE /\ reply' = Note("error", "tick", requester)
            /\ UNCHANGED <<playerData, stored>>
    /\ UNCHANGED <<activeEncounter, ledgerVars, prompts, history>>

\* ------------------------------------------------ view, reset, delete
\* /view [player]
View(requester, player, displayName, fetchOk) ==
    /\ IF fetchOk
       THEN /\ playerData' = initPlayer(playerData, player, displayName, NoChoice)
            /\ reply' = [kind |-> "view", op |-> "view", user |-> requester,
                         player |-> player]
       ELSE /\ reply' = Note("error", "view", requester)
            /\ UNCHANGED playerData
    /\ UNCHANGED <<activeEncounter, stored, ledgerVars, prompts, history>>

\* /reset: playerData.clear(), DELETE FROM players on the database backend
\* (cleared: the query succeeds), then saveData()
ResetAll(requester, cleared, ok) ==
    /\ playerData' = EmptyMap
    /\ stored' = saveData(playerData', activeEncounter,
                          IF stored.backend = "database" /\ cleared
                          THEN [stored EXCEPT !.players = EmptyMap]
                          ELSE stored,
                          ok)
    /\ reply' = Note("reset", "reset", requester)
    /\ UNCHANGED <<activeEncounter, ledgerVars, prompts, history>>

\* delete that blanks the record and keeps it in the store
DeleteBlanks(requester, player, ok) ==
    /\ IF ~MapHas(playerData, player)
       THEN /\ reply' = [kind |-> "notFound", op |-> "delete",
                         user |-> requester, player |-> player]
            /\ UNCHANGED <<playerData, stored>>
       ELSE /\ stored' = deletePlayer(stored, player, ok)
            /\ playerData' = MapSet(playerData, player,
                    NewPlayer(playerData[player].username, NoChoice))
            /\ reply' = [kind |-> "deleted", op |-> "delete",
                         user |-> requester, player |-> player]
    /\ UNCHANGED <<activeEncounter, ledgerVars, prompts, history>>

\* /delete player
Delete(requester, player, ok) ==
    /\ IF ~MapHas(playerData, player)
       THEN /\ reply' = [kind |-> "notFound", op |-> "delete",
                         user |-> requester, player |-> player]
            /\ UNCHANGED <<playerData, stored>>
       ELSE /\ stored' = deletePlayer(stored, player, ok)
            /\ playerData' = MapDelete(playerData, player)
            /\ reply' = [kind |-> "deleted", op |-> "delete",
                         user |-> requester, player |-> player]
    /\ UNCHANGED <<activeEncounter, ledgerVars, prompts, history>>

\* the handler of /delete waiting in deletePlayer for its DELETE query;
\* done: the database has run the query
DeleteRequest(requester, player, done) ==
    [requester |-> requester, deleting |-> player, done |-> done]
IsDelete(m) == "deleting" \in DOMAIN m

\* /delete player with the database, up to await pool.query('DELETE ...')
DeleteBegin(requester, player) ==
    /\ stored.backend = "database"
    /\ IF ~MapHas(playerData, player)
       THEN /\ reply' = [kind |-> "notFound", op |-> "delete",
                         user |-> requester, player |-> player]
            /\ UNCHANGED prompts
       ELSE /\ prompts' = prompts (+)
                    SetToBag({DeleteRequest(requester, player, FALSE)})
            /\ reply' = Note("deferred", "delete", requester)
    /\ UNCHANGED <<playerData, activeEncounter, stored, ledgerVars, history>>

\* the database runs the DELETE of the waiting handler `req`, or fails
DeleteQuery(req, ok) ==
    /\ BagIn(req, prompts)
    /\ IsDelete(req)
    /\ ~req.done
    /\ stored' = deletePlayer(stored, req.deleting, ok)
    /\ prompts' = (prompts (-) SetToBag({req})) (+)
            SetToBag({DeleteRequest(req.requester, req.deleting, TRUE)})
    /\ reply' = Note("query", "delete", req.requester)
    /\ UNCHANGED <<playerData, activeEncounter, ledgerVars, history>>

\* the handler `req` goes on after its query: playerData.delete(userId) and
\* the answer
DeleteResume(req) ==
    /\ BagIn(req, prompts)
    /\ IsDelete(req)
    /\ req.done
    /\ playerData' = MapDelete(playerData, req.deleting)
    /\ prompts' = prompts (-) SetToBag({req})
    /\ reply' = [kind |-> "deleted", op |-> "delete",
                 user |-> req.requester, player |-> req.deleting]
    /\ UNCHANGED <<activeEncounter, stored, ledgerVars, history>>

\* ---------------------------------------------------------------- damage
\* the players option is a sequence of tokens: <<"@", id>> for a mention
\* <@id> or <@!id>, <<text>> for anything else
\* playersInput.match(/<@!?(\d+)>/g) mapped to the ids
mentions(playersInput) ==
    LET m == SelectSeq(playersInput, LAMBDA t : Len(t) = 2 /\ t[1] = "@")
    IN [i \in 1..Len(m) |-> m[i][2]]

\* the targets of /damage and /clash add: the mentions, else the caller
targetPlayers(playersInput, requester) ==
    IF playersInput # NoChoice THEN mentions(playersInput) ELSE <<requester>>

\* damage that wears the protection's maximum down with it
damageOneWearsMax(data, damageAmount, protectionResource) ==
    LET protection == data[protectionResource]
        absorbed == IF protection > 0
                    THEN Min(protection, damageAmount) ELSE 0
    IN [data EXCEPT ![protectionResource] = protection - absorbed,
                    ![MaxField[protectionResource]] = @ - absorbed,
                    !.HP = @ - (damageAmount - absorbed)]

\* damage that takes from HP all that the protection did not absorb whole
damageOneSpills(data, damageAmount, protectionResource) ==
    LET protection == data[protectionResource]
    IN IF protection > 0 /\ protection >= damageAmount
       THEN [data EXCEPT ![protectionResource] = protection - damageAmount]
       ELSE [data EXCEPT ![protectionResource] = IF protection > 0 THEN 0 ELSE @,
                         !.HP = @ - damageAmount]

\* one pass of the loop body of /damage on a record
damageOne(data, damageAmount, protectionResource) ==
    LET protection == data[protectionResource]
        absorbsAll == protection > 0 /\ protection >= damageAmount
        absorbsSome == protection > 0 /\ protection < damageAmount
        remainingDamage == IF absorbsAll THEN 0
                           ELSE IF absorbsSome THEN damageAmount - protection
                           ELSE damageAmount
        afterProtection ==
            [data EXCEPT ![protectionResource] =
                IF absorbsAll THEN protection - damageAmount
                ELSE IF absorbsSome THEN 0 ELSE protection]
    IN IF remainingDamage > 0
       THEN [afterProtection EXCEPT !.HP = @ - remainingDamage]
       ELSE afterProtection

\* the loop of /damage; a target whose fetch throws is skipped
RECURSIVE damageAll(_, _, _, _, _, _)
damageAll(pd, targets, fetched, displayName, damageAmount, protectionResource) ==
    IF targets = <<>> THEN pd
    ELSE LET userId == Head(targets)
             pd1 == initPlayer(pd, userId, displayName, NoChoice)
             next == IF userId \in fetched
                     THEN MapSet(pd1, userId,
                            damageOne(pd1[userId], damageAmount,
                                      protectionResource))
                     ELSE pd
         IN damageAll(next, Tail(targets), fetched, displayName, damageAmount,
                      protectionResource)

\* /damage amount type [players]; fetched: the ids guild.members.fetch
\* resolves
Damage(requester, displayName, damageAmount, damageType, playersInput, fetched, ok) ==
    LET protectionResource == IF damageType = "armor" THEN "Armor" ELSE "Barrier"
    IN /\ playerData' = damageAll(playerData,
                                   targetPlayers(playersInput, requester),
                                   fetched, displayName, damageAmount,
                                   protectionResource)
       /\ stored' = saveData(playerData', activeEncounter, stored, ok)
       /\ reply' = [kind |-> "damage", op |-> "damage", user |-> requester,
                    amount |-> damageAmount, type |-> protectionResource,
                    results |-> SelectSeq(targetPlayers(playersInput,
                                                        requester),
                                          LAMBDA id : id \in fetched)]
       /\ UNCHANGED <<activeEncounter, ledgerVars, prompts, history>>

\* ----------------------------------------------------------------- clash
includes(combatants, userId) ==
    \E i \in 1..Len(combatants) : combatants[i] = userId

\* clash start that starts over when a clash is running
ClashStartRestarts(requester, ok) ==
    /\ activeEncounter' = [active |-> TRUE, combatants |-> <<>>]
    /\ stored' = saveData(playerData, activeEncounter', stored, ok)
    /\ reply' = Note("started", "clash start", requester)
    /\ UNCHANGED <<playerData, ledgerVars, prompts, history>>

\* /clash start
ClashStart(requester, ok) ==
    /\ IF activeEncounter.active
       THEN /\ reply' = Note("alreadyActive", "clash start", requester)
            /\ UNCHANGED <<activeEncounter, stored>>
       ELSE /\ activeEncounter' = [active |-> TRUE, combatants |-> <<>>]
            /\ stored' = saveData(playerData, activeEncounter', stored, ok)
            /\ reply' = Note("started", "clash start", requester)
    /\ UNCHANGED <<playerData, ledgerVars, prompts, history>>

\* /clash end
ClashEnd(requester, ok) ==
    /\ IF ~activeEncounter.active
       THEN /\ reply' = Note("notActive", "clash end", requester)
            /\ UNCHANGED <<activeEncounter, stored>>
       ELSE /\ activeEncounter' = [active |-> FALSE, combatants |-> <<>>]
            /\ stored' = saveData(playerData, activeEncounter', stored, ok)
            /\ reply' = Note("ended", "clash end", requester)
    /\ UNCHANGED <<playerData, ledgerVars, prompts, history>>

\* the loop of /clash add over the roster and the three report lists; a
\* target whose fetch throws is skipped by the catch
RECURSIVE addLoop(_, _, _)
addLoop(acc, targets, fetched) ==
    IF targets = <<>> THEN acc
    ELSE LET userId == Head(targets)
             next ==
                IF userId \notin fetched THEN acc
                ELSE IF ~MapHas(playerData, userId)
                THEN [acc EXCEPT !.noData = Append(@, userId)]
                ELSE IF includes(acc.combatants, userId)
                THEN [acc EXCEPT !.alreadyIn = Append(@, userId)]
                ELSE [acc EXCEPT !.combatants = Append(@, userId),
                                 !.added = Append(@, userId)]
         IN addLoop(next, Tail(targets), fetched)

\* the roster and the report after the loop of /clash add
addAll(combatants, targets, fetched) ==
    addLoop([combatants |-> combatants, added |-> <<>>, alreadyIn |-> <<>>,
             noData |-> <<>>], targets, fetched)

\* /clash add [players]
ClashAdd(requester, playersInput, fetched, ok) ==
    /\ IF ~activeEncounter.active
       THEN /\ reply' = Note("noClash", "clash add", requester)
            /\ UNCHANGED <<activeEncounter, stored>>
       ELSE LET done == addAll(activeEncounter.combatants,
                               targetPlayers(playersInput, requester),
                               fetched)
            IN /\ activeEncounter' =
                    [activeEncounter EXCEPT !.combatants = done.combatants]
               /\ stored' = saveData(playerData, activeEncounter', stored, ok)
               /\ reply' = [kind |-> "added", op |-> "clash add",
                            user |-> requester, added |-> done.added,
                            alreadyIn |-> done.alreadyIn,
                            noData |-> done.noData]
    /\ UNCHANGED <<playerData, ledgerVars, prompts, history>>

\* the handler of /clash add waiting for guild.members.fetch of the first
\* of `targets`, with the report lists it has built
AddRequest(requester, targets, acc) ==
    [requester |-> requester, targets |-> targets, added |-> acc.added,
     alreadyIn |-> acc.alreadyIn, noData |-> acc.noData]
IsAdd(m) == "targets" \in DOMAIN m

\* /clash add [players] up to its first await: the check of the clash and
\* the targets; without a target the loop is empty and the handler ends
ClashAddBegin(requester, playersInput, ok) ==
    /\ IF ~activeEncounter.active
       THEN /\ reply' = Note("noClash", "clash add", requester)
            /\ UNCHANGED <<stored, prompts>>
       ELSE IF targetPlayers(playersInput, requester) = <<>>
       THEN /\ stored' = saveData(playerData, activeEncounter, stored, ok)
            /\ reply' = [kind |-> "added", op |-> "clash add",
                         user |-> requester, added |-> <<>>,
                         alreadyIn |-> <<>>, noData |-> <<>>]
            /\ UNCHANGED prompts
       ELSE /\ prompts' = prompts (+) SetToBag({AddRequest(requester,
                    targetPlayers(playersInput, requester),
                    [added |-> <<>>, alreadyIn |-> <<>>, noData |-> <<>>])})
            /\ reply' = Note("deferred", "clash add", requester)
            /\ UNCHANGED stored
    /\ UNCHANGED <<playerData, activeEncounter, ledgerVars, history>>

\* the fetch of the waiting handler `req` settles: the rest of this turn of
\* the loop on the roster as it is now, then the next fetch or, after the
\* last target, saveData() and the answer
ClashAddResume(req, fetchOk, ok) ==
    /\ BagIn(req, prompts)
    /\ IsAdd(req)
    /\ LET one == addLoop([combatants |-> activeEncounter.combatants,
                           added |-> req.added, alreadyIn |-> req.alreadyIn,
                           noData |-> req.noData],
                          <<Head(req.targets)>>,
                          IF fetchOk THEN {Head(req.targets)} ELSE {})
       IN /\ activeEncounter' =
                [activeEncounter EXCEPT !.combatants = one.combatants]
          /\ IF Tail(req.targets) = <<>>
             THEN /\ prompts' = prompts (-) SetToBag({req})
                  /\ stored' = saveData(playerData, activeEncounter', stored, ok)
                  /\ reply' = [kind |-> "added", op |-> "clash add",
                               user |-> req.requester, added |-> one.added,
                               alreadyIn |-> one.alreadyIn,
                               noData |-> one.noData]
             ELSE /\ prompts' = (prompts (-) SetToBag({req})) (+)
                        SetToBag({AddRequest(req.requester, Tail(req.targets),
                                             one)})
                  /\ reply' = Note("deferred", "clash add", req.requester)
                  /\ UNCHANGED stored
    /\ UNCHANGED <<playerData, ledgerVars, history>>

\* indexOf that points at the last combatant of a longer roster
lastIndexOf(combatants, userId) ==
    LET found == {i \in 1..Len(combatants) : combatants[i] = userId}
    IN IF found = {} THEN 0
       ELSE IF Len(combatants) > 1 THEN Len(combatants)
       ELSE CHOOSE i \in found : \A j \in found : i >= j

\* combatants.indexOf(userId), 1-based, 0 for -1
indexOf(combatants, userId) ==
    LET found == {i \in 1..Len(combatants) : combatants[i] = userId}
    IN IF found = {} THEN 0
       ELSE CHOOSE i \in found : \A j \in found : i <= j

\* the loop of /clash remove over the roster, the removed ids and the
\* number of targets not in the roster: indexOf and splice for every target
RECURSIVE removeLoop(_, _)
removeLoop(acc, targets) ==
    IF targets = <<>> THEN acc
    ELSE LET userId == Head(targets)
             index == indexOf(acc.combatants, userId)
             next == IF index # 0
                     THEN [acc EXCEPT !.combatants = splice(@, index),
                                      !.removed = Append(@, userId)]
                     ELSE [acc EXCEPT !.notIn = @ + 1]
         IN removeLoop(next, Tail(targets))

\* the roster and the report after the loop of /clash remove
removeAll(combatants, targets) ==
    removeLoop([combatants |-> combatants, removed |-> <<>>, notIn |-> 0],
               targets)

\* /clash remove players
ClashRemove(requester, playersInput, ok) ==
    /\ IF ~activeEncounter.active
       THEN /\ reply' = Note("noClash", "clash remove", requester)
            /\ UNCHANGED <<activeEncounter, stored>>
       ELSE IF playersInput = NoChoice
       THEN /\ reply' = Note("noMention", "clash remove", requester)
            /\ UNCHANGED <<activeEncounter, stored>>
       ELSE LET done == removeAll(activeEncounter.combatants,
                                  mentions(playersInput))
            IN /\ activeEncounter' =
                    [activeEncounter EXCEPT !.combatants = done.combatants]
               /\ stored' = saveData(playerData, activeEncounter', stored, ok)
               /\ reply' = [kind |-> "removed", op |-> "clash remove",
                            user |-> requester, removed |-> done.removed,
                            notIn |-> done.notIn]
    /\ UNCHANGED <<playerData, ledgerVars, prompts, history>>

\* /clash list
ClashList(requester) ==
    /\ reply' =
        IF ~activeEncounter.active
        THEN Note("noClash", "clash list", requester)
        ELSE IF Len(activeEncounter.combatants) = 0
        THEN Note("noCombatants", "clash list", requester)
        ELSE [kind |-> "list", op |-> "clash list", user |-> requester,
              shown |-> SelectSeq(activeEncounter.combatants,
                                  LAMBDA id : MapHas(playerData, id)),
              count |-> Len(activeEncounter.combatants)]
    /\ UNCHANGED <<playerData, activeEncounter, stored, ledgerVars, prompts,
                   history>>

\* ------------------------------------------------------- specifications
Attacker == "11"
Manual == PenaltyChoices \cup {NoChoice}

\* Spec: the attack protocol of one attacker in depth, from an empty store.
\* The other user clicks the attacker's buttons and resets the attacker's
\* penalties.
NextAttack ==
    \E modifier \in Modifiers, manual \in Manual,
       displayName \in DisplayNames, dice1, dice2 \in DieSizes :
        \E roll1 \in 1..dice1, roll2 \in 1..dice2 :
            /\ MapGetOr0(attackCounters, Attacker) < MaxCount
            /\ Attack(Attacker, displayName, dice1, dice2, modifier, manual,
                      roll1, roll2)
            /\ BagCardinality(prompts') <= MaxPrompts

NextButton ==
    \E clicker \in Players, pr \in BagToSet(prompts),
       penalty \in PenaltyChoices, displayName \in DisplayNames :
        \E roll1 \in 1..pr.dice1, roll2 \in 1..pr.dice2 :
            PenaltyButton(clicker, pr, penalty, displayName, roll1, roll2)

NextResetPenalty ==
    \E requester \in Players \ {Attacker}, type \in PenaltyTypes,
       displayName \in DisplayNames, fetchOk \in BOOLEAN :
        ResetPenalty(requester, type, Attacker, displayName, fetchOk)

Next ==
    \/ NextAttack
    \/ NextButton
    \/ NextResetPenalty

Spec == InitFrom({FreshStore}) /\ [][Next]_vars

\* SpecWide: every player attacks and casts, a few times each, in a running
\* clash; /turn and /resetpenalty for every player.
WideAttack ==
    \E p \in Players, modifier \in WideModifiers, manual \in WideManual,
       displayName \in DisplayNames, dice1, dice2 \in WideDie :
        \E roll1 \in 1..dice1, roll2 \in 1..dice2 :
            /\ MapGetOr0(attackCounters, p) < WideCount
            /\ Attack(p, displayName, dice1, dice2, modifier, manual,
                      roll1, roll2)
            /\ BagCardinality(prompts') <= WideCount - 1

WideCastStep ==
    \E p \in Players, modifier \in WideModifiers, manual \in {NoChoice},
       displayName \in DisplayNames, dice1, dice2 \in WideDie :
        \E roll1 \in 1..dice1, roll2 \in 1..dice2 :
            /\ MapGetOr0(castCounters, p) < WideCount
            /\ Cast(p, displayName, dice1, dice2, modifier, manual,
                    roll1, roll2)

\* the store is written without failure here; SpecCast has the failure
WideTurn == \E requester \in Players : Turn(requester, TRUE)

\* requested by "11" (in Spec the other user requests)
WideResetPenalty ==
    \E requester \in {Attacker}, player \in Players, type \in PenaltyTypes,
       displayName \in DisplayNames, fetchOk \in BOOLEAN :
        ResetPenalty(requester, type, player, displayName, fetchOk)

NextWide ==
    \/ WideAttack
    \/ WideCastStep
    \/ WideTurn
    \/ WideResetPenalty

SpecWide == InitFrom({ClashStore}) /\ [][NextWide]_vars

\* SpecCast: the cast command of every player, with the resets.
CastStep ==
    \E p \in Players, modifier \in Modifiers, manual \in Manual,
       displayName \in DisplayNames, dice1, dice2 \in DieSizes :
        \E roll1 \in 1..dice1, roll2 \in 1..dice2 :
            /\ MapGetOr0(castCounters, p) < MaxCast
            /\ Cast(p, displayName, dice1, dice2, modifier, manual,
                    roll1, roll2)

CastTurn == \E requester \in Players, ok \in BOOLEAN : Turn(requester, ok)

NextCast ==
    \/ CastStep
    \/ CastTurn
    \/ WideResetPenalty

SpecCast == Init /\ [][NextCast]_vars

\* SpecCheck: attack, click, cast and check with dice that can roll a
\* critical, the checks with a low gate and with the die size as gate; "11"
\* attacks and casts, "22" checks for either player.
DiceSizes == {MaxDie}
CheckGates == {1, MaxDie}

DiceAttack ==
    \E manual \in {NoChoice, "gate"}, displayName \in DisplayNames,
       dice1, dice2 \in DiceSizes :
        \E roll1 \in 1..dice1, roll2 \in 1..dice2 :
            /\ MapGetOr0(attackCounters, Attacker) < CheckCount
            /\ Attack(Attacker, displayName, dice1, dice2, 10, manual,
                      roll1, roll2)
            /\ BagCardinality(prompts') <= 1

DiceButton ==
    \E pr \in BagToSet(prompts), penalty \in {"gate", "blind"},
       displayName \in DisplayNames :
        \E roll1 \in 1..pr.dice1, roll2 \in 1..pr.dice2 :
            PenaltyButton(pr.userId, pr, penalty, displayName, roll1, roll2)

DiceCast ==
    \E manual \in {NoChoice, "gate"}, displayName \in DisplayNames,
       dice1, dice2 \in DiceSizes :
        \E roll1 \in 1..dice1, roll2 \in 1..dice2 :
            /\ MapGetOr0(castCounters, Attacker) < CheckCount
            /\ Cast(Attacker, displayName, dice1, dice2, 10, manual,
                    roll1, roll2)

NextCheck ==
    \E requester \in Players \ {Attacker}, player \in Players,
       displayName \in DisplayNames, dice1, dice2 \in DiceSizes,
       gate \in CheckGates :
        \E fetchOk \in IF requester = player THEN {TRUE} ELSE BOOLEAN,
           roll1 \in 1..dice1, roll2 \in 1..dice2 :
            Check(requester, player, displayName, dice1, dice2, gate, fetchOk,
                  roll1, roll2)

NextDice ==
    \/ DiceAttack
    \/ DiceButton
    \/ DiceCast
    \/ NextCheck

SpecCheck == InitFrom({FreshStore}) /\ [][NextDice]_vars

\* the resource sheet: set, update, the resource commands and rest, with one
\* status effect on the record so that the frame of each command is visible
CharacterNames == {"Rowan"}
Rowan == [HP |-> 20, MP |-> 10, IP |-> 5, Armor |-> 4, Barrier |-> 4]
SheetMaxima == {Rowan, [HP |-> 10, MP |-> 6, IP |-> 0, Armor |-> 2, Barrier |-> 1]}
SheetResources == {"HP", "IP"}
SheetCommands == {"hp", "ip"}
SheetAmounts == {-25, 5}
AmountStrings == {<<"-", "2", "5">>, <<"5">>, <<"F", "u", "l", "l">>,
                  <<"z", "e", "r", "o">>, <<"x">>}
SheetStatus == <<"P", "o">>

\* the values of the sheet's player stay in the modelled range
InRange ==
    MapHas(playerData', Attacker) =>
        \A r \in Resources :
            /\ playerData'[Attacker][r] <= MaxAbs
            /\ playerData'[Attacker][r] >= 0 - MaxAbs

SheetSet ==
    \E player \in Players, displayName \in DisplayNames,
       characterName \in CharacterNames, maxima \in SheetMaxima,
       fetchOk \in BOOLEAN :
        Set(Attacker, player, displayName, characterName, maxima, fetchOk, TRUE)

SheetUpdate ==
    \E requester \in Players, displayName \in DisplayNames,
       resource \in SheetResources, amount \in SheetAmounts,
       fetchOk \in BOOLEAN :
        /\ Update(requester, Attacker, displayName, resource, amount, fetchOk,
                  TRUE)
        /\ InRange

SheetResource ==
    \E displayName \in DisplayNames, commandName \in SheetCommands,
       amountStr \in AmountStrings :
        /\ ResourceCommand(Attacker, displayName, commandName, amountStr, TRUE)
        /\ InRange

SheetRest ==
    \E displayName \in DisplayNames : Rest(Attacker, displayName, TRUE)

SheetStatusAdd ==
    \E displayName \in DisplayNames :
        StatusAdd(Attacker, Attacker, displayName, SheetStatus, 1, TRUE, TRUE)

NextSheet ==
    \/ SheetSet
    \/ SheetUpdate
    \/ SheetResource
    \/ SheetRest
    \/ SheetStatusAdd

SpecSheet == InitFrom({FreshStore}) /\ [][NextSheet]_vars

\* status effects: add, clear and tick, with names that differ by case only
StatusNames == {<<"P", "o">>, <<"p", "o">>, <<"B">>}
Durations == 1..MaxDuration
\* the caller's own member needs no fetch
FetchResults(requester, player) ==
    IF requester = player THEN {TRUE} ELSE BOOLEAN

NextStatusAdd ==
    \E player \in Players, displayName \in DisplayNames,
       statusName \in StatusNames, duration \in Durations :
        \E fetchOk \in FetchResults(Attacker, player) :
            StatusAdd(Attacker, player, displayName, statusName, duration,
                      fetchOk, TRUE)

NextStatusClear ==
    \E player \in Players, displayName \in DisplayNames,
       statusName \in StatusNames :
        \E fetchOk \in FetchResults(Attacker, player) :
            StatusClear(Attacker, player, displayName, statusName, fetchOk,
                        TRUE)

NextTick ==
    \E player \in Players, displayName \in DisplayNames :
        \E fetchOk \in FetchResults(Attacker, player) :
            Tick(Attacker, player, displayName, fetchOk, TRUE)

NextStatus ==
    \/ NextStatusAdd
    \/ NextStatusClear
    \/ NextTick

SpecStatus == InitFrom({FreshStore}) /\ [][NextStatus]_vars

\* every command that writes a record or the ledger, on one sheet
TableDamage == 20
TableInputs == {NoChoice, <<(<<"@", "11">>), (<<"x">>)>>}
\* every record's values stay in the modelled range
AllInRange ==
    \A p \in DOMAIN playerData' : \A r \in Resources :
        /\ playerData'[p][r] <= MaxAbs
        /\ playerData'[p][r] >= 0 - MaxAbs

TableSet ==
    \E displayName \in DisplayNames, characterName \in CharacterNames :
        Set(Attacker, Attacker, displayName, characterName, Rowan, TRUE, TRUE)

TableUpdate ==
    \E displayName \in DisplayNames :
        /\ Update(Attacker, Attacker, displayName, "HP", 0 - TableDamage, TRUE,
                  TRUE)
        /\ AllInRange

TableResource ==
    \E displayName \in DisplayNames,
       amountStr \in {<<"F", "u", "l", "l">>, <<"z", "e", "r", "o">>} :
        ResourceCommand(Attacker, displayName, "hp", amountStr, TRUE)

TableRest ==
    \E displayName \in DisplayNames : Rest(Attacker, displayName, TRUE)

TableDamageStep ==
    \E displayName \in DisplayNames, damageType \in {"armor", "barrier"},
       playersInput \in TableInputs, fetched \in {Players, {}} :
        /\ Damage(Attacker, displayName, TableDamage, damageType, playersInput,
                  fetched, TRUE)
        /\ AllInRange

TableStatus ==
    \E displayName \in DisplayNames :
        \/ StatusAdd(Attacker, Attacker, displayName, SheetStatus, 1, TRUE, TRUE)
        \/ StatusClear(Attacker, Attacker, displayName, SheetStatus, TRUE, TRUE)

TableTick ==
    \E displayName \in DisplayNames :
        Tick(Attacker, Attacker, displayName, TRUE, TRUE)

TableAttack ==
    \E displayName \in DisplayNames, dice \in WideDie :
        \E roll1 \in 1..dice, roll2 \in 1..dice :
            /\ MapGetOr0(attackCounters, Attacker) < CheckCount
            /\ Attack(Attacker, displayName, dice, dice, 10, NoChoice,
                      roll1, roll2)
            /\ BagCardinality(prompts') <= 1

TableButton ==
    \E pr \in BagToSet(prompts), displayName \in DisplayNames :
        \E roll1 \in 1..pr.dice1, roll2 \in 1..pr.dice2 :
            PenaltyButton(pr.userId, pr, "gate", displayName, roll1, roll2)

TableCast ==
    \E displayName \in DisplayNames, dice \in WideDie :
        \E roll1 \in 1..dice, roll2 \in 1..dice :
            /\ MapGetOr0(castCounters, Attacker) < 1
            /\ Cast(Attacker, displayName, dice, dice, 10, "gate", roll1, roll2)

TableCheck ==
    \E displayName \in DisplayNames, dice \in WideDie :
        \E roll1 \in 1..dice, roll2 \in 1..dice :
            Check(Attacker, Attacker, displayName, dice, dice, 1, TRUE,
                  roll1, roll2)

TableTurn == Turn(Attacker, TRUE)

TableClash ==
    \/ ClashStart(Attacker, TRUE)
    \/ ClashEnd(Attacker, TRUE)
    \/ \E playersInput \in TableInputs :
            ClashAdd(Attacker, playersInput, Players, TRUE)
    \/ \E playersInput \in TableInputs :
            ClashRemove(Attacker, playersInput, TRUE)
    \/ ClashList(Attacker)

NextTable ==
    \/ TableSet
    \/ TableUpdate
    \/ TableResource
    \/ TableRest
    \/ TableDamageStep
    \/ TableStatus
    \/ TableTick
    \/ TableAttack
    \/ TableButton
    \/ TableCast
    \/ TableCheck
    \/ TableTurn
    \/ TableClash

SpecTable == InitFrom({FreshStore}) /\ [][NextTable]_vars

\* the store and its backing store, file or database, with every write
\* succeeding
StoreSet ==
    \E player \in Players, displayName \in DisplayNames,
       characterName \in CharacterNames :
        Set(Attacker, player, displayName, characterName, Rowan, TRUE, TRUE)

StoreUpdate ==
    \E player \in Players, displayName \in DisplayNames :
        /\ Update(Attacker, player, displayName, "HP", 0 - TableDamage, TRUE,
                  TRUE)
        /\ AllInRange

StoreStatus ==
    \E displayName \in DisplayNames :
        StatusAdd(Attacker, Attacker, displayName, SheetStatus, 1, TRUE, TRUE)

StoreView ==
    \E player \in Players, displayName \in DisplayNames,
       fetchOk \in BOOLEAN :
        View(Attacker, player, displayName, fetchOk)

StoreDelete == \E player \in Players : Delete(Attacker, player, TRUE)

StoreReset == ResetAll(Attacker, TRUE, TRUE)

StoreClash ==
    \/ ClashStart(Attacker, TRUE)
    \/ ClashAdd(Attacker, NoChoice, Players, TRUE)
    \/ ClashEnd(Attacker, TRUE)

NextStore ==
    \/ StoreSet
    \/ StoreUpdate
    \/ StoreStatus
    \/ StoreView
    \/ StoreDelete
    \/ StoreReset
    \/ StoreClash

SpecStore == InitFrom({FreshStore, FreshDatabase}) /\ [][NextStore]_vars

\* the store with writes and queries that may fail
FlushSet ==
    \E displayName \in DisplayNames, characterName \in CharacterNames,
       ok \in BOOLEAN :
        Set(Attacker, Attacker, displayName, characterName, Rowan, TRUE, ok)

FlushUpdate ==
    \E displayName \in DisplayNames, ok \in BOOLEAN :
        /\ Update(Attacker, Attacker, displayName, "HP", 0 - TableDamage, TRUE,
                  ok)
        /\ AllInRange

FlushView ==
    \E displayName \in DisplayNames : View(Attacker, Attacker, displayName, TRUE)

FlushDelete == \E ok \in BOOLEAN : Delete(Attacker, Attacker, ok)

FlushReset == \E cleared, ok \in BOOLEAN : ResetAll(Attacker, cleared, ok)

FlushClash ==
    \E ok \in BOOLEAN :
        \/ ClashStart(Attacker, ok)
        \/ ClashAdd(Attacker, NoChoice, Players, ok)
        \/ ClashEnd(Attacker, ok)

NextFlush ==
    \/ FlushSet
    \/ FlushUpdate
    \/ FlushView
    \/ FlushDelete
    \/ FlushReset
    \/ FlushClash

SpecFlush == InitFrom({FreshStore, FreshDatabase}) /\ [][NextFlush]_vars

\* the clash and its roster: records come and go by set and delete, the
\* fetch of player 22 may throw, a request may name an id twice
ClashInputs == {NoChoice, <<(<<"@", "11">>), (<<"@", "22">>)>>,
                <<(<<"@", "22">>), (<<"x">>), (<<"@", "22">>)>>}
\* those of them that are given
MentionInputs == {<<(<<"@", "11">>), (<<"@", "22">>)>>,
                  <<(<<"@", "22">>), (<<"x">>), (<<"@", "22">>)>>}
ClashFetched == {Players, {"11"}}

RosterSet ==
    \E player \in Players, displayName \in DisplayNames,
       characterName \in CharacterNames :
        Set(Attacker, player, displayName, characterName, Rowan, TRUE, TRUE)

RosterDelete == \E player \in Players : Delete(Attacker, player, TRUE)

RosterStart == \E requester \in Players : ClashStart(requester, TRUE)

RosterEnd == \E requester \in Players : ClashEnd(requester, TRUE)

RosterAdd ==
    \E requester \in Players, playersInput \in ClashInputs,
       fetched \in ClashFetched :
        ClashAdd(requester, playersInput, fetched, TRUE)

RosterRemove ==
    \E requester \in Players, playersInput \in ClashInputs :
        ClashRemove(requester, playersInput, TRUE)

RosterList == \E requester \in Players : ClashList(requester)

NextClash ==
    \/ RosterSet
    \/ RosterDelete
    \/ RosterStart
    \/ RosterEnd
    \/ RosterAdd
    \/ RosterRemove
    \/ RosterList

SpecClash == InitFrom({FreshStore}) /\ [][NextClash]_vars

\* --------------------------------------------- the rounds of a clash
\* two sheets, damage on the second down to half its HP, one attack and
\* one cast a round, the clash and its rounds
RoundDamages == {0, 3, 6}
RoundInputs == {NoChoice, <<(<<"@", "22">>), (<<"@", "22">>)>>}
Defender == "22"

RoundSet ==
    \E player \in Players, displayName \in DisplayNames,
       characterName \in CharacterNames :
        Set(Attacker, player, displayName, characterName, Rowan, TRUE, TRUE)

RoundStatus ==
    \E displayName \in DisplayNames :
        /\ MapHas(playerData, Attacker)
        /\ StatusAdd(Attacker, Attacker, displayName, SheetStatus, 1, TRUE, TRUE)

RoundDelete == Delete(Attacker, Attacker, TRUE)

RoundDamage ==
    \E displayName \in DisplayNames, damageAmount \in RoundDamages,
       damageType \in {"armor", "barrier"}, playersInput \in RoundInputs :
        /\ MapHas(playerData, Defender)
        /\ Damage(Defender, displayName, damageAmount, damageType,
                  playersInput, Players, TRUE)
        /\ playerData'[Defender].HP >= Rowan.HP \div 2

RoundAttack ==
    \E displayName \in DisplayNames, dice \in WideDie :
        \E roll1 \in 1..dice, roll2 \in 1..dice :
            /\ MapHas(playerData, Attacker)
            /\ ~MapHas(attackCounters, Attacker)
            /\ Attack(Attacker, displayName, dice, dice, 10, "gate",
                      roll1, roll2)

RoundCast ==
    \E displayName \in DisplayNames, dice \in WideDie :
        \E roll1 \in 1..dice, roll2 \in 1..dice :
            /\ MapHas(playerData, Defender)
            /\ ~MapHas(castCounters, Defender)
            /\ Cast(Defender, displayName, dice, dice, 10, NoChoice,
                    roll1, roll2)

RoundClash ==
    \/ ClashStart(Attacker, TRUE)
    \/ ClashEnd(Attacker, TRUE)
    \/ \E requester \in Players :
            ClashAdd(requester, NoChoice, Players, TRUE)

RoundTurn == Turn(Attacker, TRUE)

NextRound ==
    \/ RoundSet
    \/ RoundStatus
    \/ RoundDelete
    \/ RoundDamage
    \/ RoundAttack
    \/ RoundCast
    \/ RoundClash
    \/ RoundTurn

SpecRound == InitFrom({FreshStore}) /\ [][NextRound]_vars

\* ------------------------------------------------ the rolls on a sheet
\* one sheet with its values away from the maxima and a status effect; the
\* attacks, clicks and casts of its player and the checks for both players
RollSet ==
    \E displayName \in DisplayNames, characterName \in CharacterNames :
        Set(Attacker, Attacker, displayName, characterName, Rowan, TRUE, TRUE)

RollUpdate ==
    \E displayName \in DisplayNames, resource \in {"HP", "MP"} :
        /\ MapHas(playerData, Attacker)
        /\ playerData[Attacker][resource] = Rowan[resource]
        /\ Update(Attacker, Attacker, displayName, resource, 0 - TableDamage,
                  TRUE, TRUE)

RollStatus ==
    \E displayName \in DisplayNames :
        /\ MapHas(playerData, Attacker)
        /\ StatusAdd(Attacker, Attacker, displayName, SheetStatus, 1, TRUE, TRUE)

RollAttack ==
    \E displayName \in DisplayNames, dice \in WideDie,
       manual \in {NoChoice, "gate"} :
        \E roll1 \in 1..dice, roll2 \in 1..dice :
            /\ MapGetOr0(attackCounters, Attacker) < CheckCount
            /\ Attack(Attacker, displayName, dice, dice, 10, manual,
                      roll1, roll2)
            /\ BagCardinality(prompts') <= 1

RollButton ==
    \E pr \in BagToSet(prompts), displayName \in DisplayNames,
       penalty \in {"gate", "damage50"} :
        \E roll1 \in 1..pr.dice1, roll2 \in 1..pr.dice2 :
            PenaltyButton(pr.userId, pr, penalty, displayName, roll1, roll2)

RollCast ==
    \E displayName \in DisplayNames, dice \in WideDie,
       manual \in {NoChoice, "damage50"} :
        \E roll1 \in 1..dice, roll2 \in 1..dice :
            /\ MapGetOr0(castCounters, Attacker) < CheckCount
            /\ Cast(Attacker, displayName, dice, dice, 10, manual, roll1, roll2)

RollCheck ==
    \E player \in Players, displayName \in DisplayNames, dice \in WideDie :
        \E roll1 \in 1..dice, roll2 \in 1..dice :
            Check(Attacker, player, displayName, dice, dice, 1, TRUE,
                  roll1, roll2)

NextRolls ==
    \/ RollSet
    \/ RollUpdate
    \/ RollStatus
    \/ RollAttack
    \/ RollButton
    \/ RollCast
    \/ RollCheck

SpecRolls == InitFrom({FreshStore}) /\ [][NextRolls]_vars

\* ------------------------------------- requests between their awaits
\* one /clash add at a time waits for its fetches while the other requests
\* are handled
AwaitSet ==
    \E player \in Players, displayName \in DisplayNames,
       characterName \in CharacterNames :
        Set(Attacker, player, displayName, characterName, Rowan, TRUE, TRUE)

AwaitStart == \E requester \in Players : ClashStart(requester, TRUE)

AwaitEnd == \E requester \in Players : ClashEnd(requester, TRUE)

AwaitAddBegin ==
    \E requester \in Players, playersInput \in ClashInputs :
        /\ prompts = EmptyBag
        /\ ClashAddBegin(requester, playersInput, TRUE)

AwaitAddResume ==
    \E req \in BagToSet(prompts), fetchOk \in BOOLEAN :
        ClashAddResume(req, fetchOk, TRUE)

NextAwait ==
    \/ AwaitSet
    \/ AwaitStart
    \/ AwaitEnd
    \/ AwaitAddBegin
    \/ AwaitAddResume

SpecAwait == InitFrom({FreshStore}) /\ [][NextAwait]_vars

\* ------------------------------------ a delete and the other requests
\* the database; one /delete at a time waits for its query while /set and
\* /update of other requests are handled, each with its flush: the upsert of
\* the player is sent before saveData() first yields, after the DELETE when
\* the DELETE has run
OverlapSet ==
    \E player \in Players, displayName \in DisplayNames,
       characterName \in CharacterNames :
        Set(Attacker, player, displayName, characterName, Rowan, TRUE, TRUE)

OverlapUpdate ==
    \E player \in Players, displayName \in DisplayNames :
        /\ MapHas(playerData, player)
        /\ Update(Attacker, player, displayName, "HP", 0 - TableDamage, TRUE,
                  TRUE)
        /\ AllInRange

OverlapDeleteBegin ==
    \E player \in Players :
        /\ prompts = EmptyBag
        /\ DeleteBegin(Attacker, player)

\* every query succeeds
OverlapDeleteQuery == \E req \in BagToSet(prompts) : DeleteQuery(req, TRUE)

OverlapDeleteResume == \E req \in BagToSet(prompts) : DeleteResume(req)

NextOverlap ==
    \/ OverlapSet
    \/ OverlapUpdate
    \/ OverlapDeleteBegin
    \/ OverlapDeleteQuery
    \/ OverlapDeleteResume

SpecOverlap == InitFrom({FreshDatabase}) /\ [][NextOverlap]_vars

\* ------------------------------------------------ who may run a command
\* the members of the guild that have the permission Manage Messages
GameMasters == {"22"}

\* default_member_permissions of a registered command: the permission a
\* member needs for Discord to deliver the command
defaultMemberPermissions(commandName) ==
    IF commandName \in {"reset", "turn", "resetpenalty"}
    THEN "ManageMessages" ELSE NoChoice

allowed(requester, commandName) ==
    \/ defaultMemberPermissions(commandName) = NoChoice
    \/ requester \in GameMasters

\* Discord does not deliver the command: no handler runs
Refused(requester, op) ==
    /\ reply' = Note("unauthorized", op, requester)
    /\ UNCHANGED <<playerData, activeEncounter, stored, ledgerVars, prompts,
                   history>>

GateSet ==
    \E requester \in Players, displayName \in DisplayNames,
       characterName \in CharacterNames :
        /\ allowed(requester, "set")
        /\ Set(requester, requester, displayName, characterName, Rowan, TRUE,
               TRUE)

GateAttack ==
    \E displayName \in DisplayNames, dice \in WideDie :
        \E roll1 \in 1..dice, roll2 \in 1..dice :
            /\ allowed(Attacker, "attack")
            /\ MapGetOr0(attackCounters, Attacker) < CheckCount
            /\ Attack(Attacker, displayName, dice, dice, 10, "gate",
                      roll1, roll2)

GateReset ==
    \E requester \in Players :
        IF allowed(requester, "reset") THEN ResetAll(requester, TRUE, TRUE)
        ELSE Refused(requester, "reset")

GateTurn ==
    \E requester \in Players :
        IF allowed(requester, "turn") THEN Turn(requester, TRUE)
        ELSE Refused(requester, "turn")

GateResetPenalty ==
    \E requester \in Players, type \in PenaltyTypes,
       displayName \in DisplayNames :
        IF allowed(requester, "resetpenalty")
        THEN ResetPenalty(requester, type, Attacker, displayName, TRUE)
        ELSE Refused(requester, "resetpenalty")

GateClashStart ==
    \E requester \in Players :
        IF allowed(requester, "clash") THEN ClashStart(requester, TRUE)
        ELSE Refused(requester, "clash start")

GateClashEnd ==
    \E requester \in Players :
        IF allowed(requester, "clash") THEN ClashEnd(requester, TRUE)
        ELSE Refused(requester, "clash end")

GateClashAdd ==
    \E requester \in Players :
        /\ allowed(requester, "clash")
        /\ ClashAdd(requester, NoChoice, Players, TRUE)

NextGate ==
    \/ GateSet
    \/ GateAttack
    \/ GateReset
    \/ GateTurn
    \/ GateResetPenalty
    \/ GateClashStart
    \/ GateClashEnd
    \/ GateClashAdd

SpecGate == InitFrom({FreshStore}) /\ [][NextGate]_vars

\* ------------------------------------------- clicks on one open prompt
\* the handlers of one prompt that may wait for their update at a time
MaxPresses == 2

\* the attacker attacks while no prompt is open
PressAttack ==
    \E modifier \in Modifiers, manual \in Manual,
       displayName \in DisplayNames, dice1, dice2 \in DieSizes :
        \E roll1 \in 1..dice1, roll2 \in 1..dice2 :
            /\ MapGetOr0(attackCounters, Attacker) < MaxCount
            /\ prompts = EmptyBag
            /\ Attack(Attacker, displayName, dice1, dice2, modifier, manual,
                      roll1, roll2)

\* a click on a message that still has its buttons reaches the handler
PressButton ==
    \E clicker \in Players, pr \in BagToSet(prompts),
       penalty \in PenaltyChoices, displayName \in DisplayNames :
        /\ ~IsEdit(pr)
        /\ CopiesIn(Edit(pr), prompts) < MaxPresses
        /\ \E roll1 \in 1..pr.dice1, roll2 \in 1..pr.dice2 :
                ButtonHandler(clicker, pr, penalty, displayName, roll1, roll2)

PressUpdate ==
    \E m \in BagToSet(prompts) : IsEdit(m) /\ ButtonUpdate(m.message)

NextPress ==
    \/ PressAttack
    \/ PressButton
    \/ PressUpdate

SpecPress == InitFrom({FreshStore}) /\ [][NextPress]_vars

\* ------------------------------------------------- load, then save again
\* status_effects of a row, statusEffects of a record
StoredStatus ==
    {<<>>,
     <<[name |-> <<"B">>, duration |-> 2]>>,
     <<[name |-> <<"P", "o">>, duration |-> 1],
       [name |-> <<"B">>, duration |-> 3]>>}

StoredRecords ==
    {[NewPlayer("Ann", "Rowan") EXCEPT !.HP = 5, !.maxHP = 9,
                                       !.statusEffects = list] :
        list \in StoredStatus}

\* a record written before characters had status effects
EarlyRecords ==
    {[key \in DOMAIN data \ {"statusEffects"} |-> data[key]] :
        data \in {[NewPlayer("Ann", "Rowan") EXCEPT !.HP = 5, !.maxHP = 9]}}

\* rows of players: the ones saveData writes, and one whose status_effects
\* is NULL (the column has a default, no NOT NULL)
StoredRow ==
    [username |-> "Ann", character_name |-> "Rowan",
     hp |-> 5, mp |-> 0, ip |-> 0, armor |-> 0, barrier |-> 0,
     max_hp |-> 9, max_mp |-> 0, max_ip |-> 0, max_armor |-> 0,
     max_barrier |-> 0]

StoredRows ==
    {[key \in DOMAIN StoredRow \cup {"status_effects"} |->
        IF key = "status_effects" THEN list ELSE StoredRow[key]] :
        list \in StoredStatus}
    \cup {StoredRow}

MapsTo(values) == UNION {[ids -> values] : ids \in SUBSET Players}

StoredEncounters ==
    [active : BOOLEAN, combatants : {<<>>, <<"11">>, <<"22", "11">>}]

\* players.json as saveData writes it, as an early version without
\* encounters left it, and as the map of the players alone
StoredDocuments ==
    {[backend |-> "file", players |-> pd, encounter |-> enc] :
        pd \in MapsTo(StoredRecords \cup EarlyRecords),
        enc \in StoredEncounters}
    \cup {[backend |-> "file", players |-> pd] :
            pd \in MapsTo(StoredRecords \cup EarlyRecords)}
    \cup {[key \in {"backend"} \cup DOMAIN pd |->
                IF key = "backend" THEN "file" ELSE pd[key]] :
            pd \in MapsTo(StoredRecords \cup EarlyRecords)}

\* the two tables: with the encounter row, with its combatants NULL, and
\* without the row
StoredTables ==
    {[backend |-> "database", players |-> rows, encounter |-> enc] :
        rows \in MapsTo(StoredRows),
        enc \in StoredEncounters \cup [active : BOOLEAN]}
    \cup {[backend |-> "database", players |-> rows] :
            rows \in MapsTo(StoredRows)}

\* saveData() with nothing changed since loadData()
Persist(ok) ==
    /\ stored' = saveData(playerData, activeEncounter, stored, ok)
    /\ reply' = Note("saved", "saveData", "none")
    /\ UNCHANGED <<playerData, activeEncounter, attackCounters, castCounters,
                   attackPenalties, castPenalties, prompts, attackChoices,
                   untouched>>

\* the process starts again: the ready event runs loadData()
Ready ==
    /\ playerData' = loadData(stored).players
    /\ activeEncounter' = loadData(stored).encounter
    /\ attackCounters' = EmptyMap
    /\ castCounters' = EmptyMap
    /\ attackPenalties' = EmptyMap
    /\ castPenalties' = EmptyMap
    /\ prompts' = EmptyBag
    /\ reply' = Note("loaded", "ready", "none")
    /\ UNCHANGED <<stored, attackChoices, untouched>>

RoundTripSave == Persist(TRUE)

RoundTripReady == Ready

NextRoundTrip ==
    \/ RoundTripSave
    \/ RoundTripReady

SpecRoundTrip ==
    InitFrom(StoredDocuments \cup StoredTables) /\ [][NextRoundTrip]_vars

\* ------------------------------------------------------------------ claims
AllDie == DieSizes \cup WideDie
AllModifiers == Modifiers \cup WideModifiers
Outcomes == {"fumble", "critical", "hit", "miss"}

\* a step of the attack command of p with the given penalties option (the
\* conjuncts on reply' follow from Attack and are stated first to be decided
\* first; likewise below)
AttackStep(p, manual) ==
    /\ reply'.op = "attack" /\ reply'.user = p /\ reply'.manual = manual
    /\ \E displayName \in DisplayNames, dice1, dice2 \in AllDie,
          modifier \in AllModifiers :
        \E roll1 \in 1..dice1, roll2 \in 1..dice2 :
            Attack(p, displayName, dice1, dice2, modifier, manual, roll1, roll2)

\* a click of `clicker` on a button of the open prompt pr; the button and
\* the dice of a resolved roll are those the answer shows
ButtonStep(clicker, pr) ==
    /\ reply'.op = "button"
    /\ LET shown == reply'.kind = "roll"
       IN \E penalty \in IF shown THEN PenaltyChoices \cap {reply'.manual}
                          ELSE PenaltyChoices,
             displayName \in DisplayNames :
            \E roll1 \in IF shown THEN {reply'.lowRoll, reply'.highRoll}
                          ELSE 1..pr.dice1,
               roll2 \in IF shown THEN {reply'.lowRoll, reply'.highRoll}
                          ELSE 1..pr.dice2 :
                /\ roll1 \in 1..pr.dice1 /\ roll2 \in 1..pr.dice2
                /\ PenaltyButton(clicker, pr, penalty, displayName,
                                 roll1, roll2)

TurnStep ==
    /\ reply'.op = "turn"
    /\ \E requester \in Players, ok \in BOOLEAN : Turn(requester, ok)

\* a step of /resetpenalty type player; the requester and the outcome of the
\* fetch are those the answer shows
ResetStep(type, player) ==
    /\ reply'.op = "resetpenalty" /\ reply'.user \in Players
    /\ \E displayName \in DisplayNames :
        ResetPenalty(reply'.user, type, player, displayName,
                     reply'.kind = "reset")

\* the last answer is a resolved attack roll (attack command or button)
AttackRoll == reply.kind = "roll" /\ reply.op \in {"attack", "button"}

\* damageReductionPercent accumulated by the choices h
ReductionOf(h) == 50 * h.damage50 + 100 * h.damage100

HasOpenPrompt(p) == \E pr \in BagToSet(prompts) : pr.userId = p

\* C1: an attack with no penalties option answers with the penalty prompt,
\* leaving every penalty untouched, exactly when the counter after the
\* increment is at least 2; at count 1 it resolves at once with gate 1.
C1_PromptIffSecondAttack ==
    [][\A p \in Players :
        AttackStep(p, NoChoice) =>
            /\ (reply'.kind = "prompt") <=> (attackCounters'[p] >= 2)
            /\ reply'.kind # "prompt" => reply'.kind = "roll"
            /\ reply'.kind = "prompt" =>
                /\ attackPenalties' = attackPenalties
                /\ castPenalties' = castPenalties
                /\ attackChoices' = attackChoices
            /\ attackCounters'[p] = 1 =>
                reply'.kind = "roll" /\ reply'.gate = 1]_vars

\* the second attack, with no option, was answered by the prompt after the
\* first one resolved without a penalty
C1_Witness ==
    /\ reply.kind = "prompt" /\ reply.user = Attacker /\ reply.count = 2
    /\ attackPenalties[Attacker] = ZeroPenalty
    /\ HasOpenPrompt(Attacker)

\* C2: the gate of every resolved attack roll is 3 when blind was applied
\* for the player since the last reset, else 1 + the number of gate choices
\* applied since the last reset.
C2_GateOfResolvedAttack ==
    AttackRoll =>
        LET h == attackChoices[reply.user]
        IN reply.gate = IF h.blind > 0 THEN 3 ELSE 1 + h.gate

\* a prompt resumed with blind after a gate choice: gate 3
C2_Witness ==
    /\ AttackRoll /\ reply.op = "button"
    /\ attackChoices[reply.user].blind > 0
    /\ attackChoices[reply.user].gate > 0
    /\ reply.gate = 3

\* C3: in every resolved attack roll the modifier is
\* floor(raw * max(0, 1 - damageReductionPercent/100)), also above 100 percent,
\* and the damage is the high roll plus that modifier.
C3_ModifierClamped ==
    AttackRoll =>
        LET dr == ReductionOf(attackChoices[reply.user])
        IN /\ reply.finalModifier = (reply.modifier * Max(0, 100 - dr)) \div 100
           /\ reply.damage = reply.highRoll + reply.finalModifier

\* C4: with exactly two damage50 choices, or exactly one damage100 choice,
\* applied since the last reset, a resolved attack roll has the same
\* modifier, 0, for every raw modifier and either way of applying them.
C4_TwoHalvesEqualOneFull ==
    AttackRoll =>
        LET h == attackChoices[reply.user]
        IN (\/ h.damage50 = 2 /\ h.damage100 = 0
            \/ h.damage50 = 0 /\ h.damage100 = 1) =>
                /\ reply.finalModifier = 0
                /\ reply.damage = reply.highRoll

\* raw modifier 10, one damage50 by the option and one by the button
C4_Witness ==
    /\ AttackRoll /\ reply.op = "button"
    /\ attackChoices[reply.user].damage50 = 2
    /\ attackChoices[reply.user].damage100 = 0
    /\ reply.modifier = 10 /\ reply.finalModifier = 0

\* C5: a successful /turn empties the attack and cast counters and penalties
\* of every player, and the next attack of every player, with no option,
\* resolves at once with gate 1 and the raw modifier.
C5_NewRoundClearsAll ==
    [][/\ (TurnStep /\ reply'.kind = "turn") =>
            /\ attackCounters' = EmptyMap /\ castCounters' = EmptyMap
            /\ attackPenalties' = EmptyMap /\ castPenalties' = EmptyMap
       /\ \A p \in untouched :
            AttackStep(p, NoChoice) =>
                /\ reply'.kind = "roll" /\ reply'.count = 1
                /\ reply'.gate = 1
                /\ reply'.finalModifier = reply'.modifier]_vars

\* the non-combatant, prompted before the new round, attacks first after it
C5_Witness ==
    /\ reply.kind = "roll" /\ reply.op = "attack" /\ reply.user = "22"
    /\ reply.manual = NoChoice /\ HasOpenPrompt("22")
    /\ reply.count = 1 /\ reply.gate = 1
    /\ untouched = {"11"}
    /\ "22" \notin {activeEncounter.combatants[i] :
                        i \in 1..Len(activeEncounter.combatants)}

\* the counter and the penalties of one player and kind, <<>> when absent
Entry(type, p) ==
    IF type = "attack"
    THEN <<MapGetOr0(attackCounters, p),
           IF MapHas(attackPenalties, p) THEN <<attackPenalties[p]>> ELSE <<>> >>
    ELSE <<MapGetOr0(castCounters, p),
           IF MapHas(castPenalties, p) THEN <<castPenalties[p]>> ELSE <<>> >>

\* C6: /resetpenalty type player removes the counter and the penalties of
\* that player and kind and changes those of no other player or kind.
C6_ResetOneOnlyThatPair ==
    [][\A player \in Players, type \in PenaltyTypes :
        ResetStep(type, player) =>
            /\ Entry(type, player)' = <<0, <<>> >>
            /\ \A q \in Players, k \in PenaltyTypes :
                (q # player \/ k # type) => Entry(k, q)' = Entry(k, q)]_vars

\* attack of "11" was reset while the cast counter of "11" and the attack
\* penalties of "22" stay
C6_Witness ==
    /\ reply.kind = "reset" /\ reply.type = "attack" /\ reply.player = "11"
    /\ Entry("attack", "11") = <<0, <<>> >>
    /\ MapGetOr0(castCounters, "11") = 1
    /\ MapHas(attackPenalties, "22") /\ attackPenalties["22"] # ZeroPenalty

\* C7: a click on a penalty button by anyone but the attacker is refused;
\* no penalty, counter or record changes and the prompt stays open.
C7_OnlyOwnerResumes ==
    [][\A clicker \in Players, pr \in BagToSet(prompts) :
        (clicker # pr.userId /\ ButtonStep(clicker, pr)) =>
            /\ reply'.kind = "unauthorized"
            /\ UNCHANGED <<ledgerVars, playerData, attackChoices>>
            /\ prompts' = prompts /\ BagIn(pr, prompts')]_vars

C7_Witness ==
    /\ reply.kind = "unauthorized" /\ reply.user = "22"
    /\ HasOpenPrompt(Attacker)
    /\ MapGetOr0(attackCounters, Attacker) >= 2

\* C8: a click of the attacker on an open prompt, whatever happened since
\* the prompt, ends with a classified roll.
C8_ResumeAlwaysResolves ==
    (reply.op = "button" /\ reply.kind # "unauthorized") =>
        reply.kind = "roll" /\ reply.outcome \in Outcomes

\* the rules of the attack counter: +1 by every attack, unchanged by every
\* click, smaller only after /turn or /resetpenalty attack
C9_CounterRules ==
    /\ \A p \in Players :
        \/ MapGetOr0(attackCounters', p) = MapGetOr0(attackCounters, p) + 1
        \/ ~\E manual \in Manual : AttackStep(p, manual)
    /\ \/ attackCounters' = attackCounters
       \/ ~\E clicker \in Players, pr \in BagToSet(prompts) :
                ButtonStep(clicker, pr)
    /\ \A p \in Players :
        MapGetOr0(attackCounters', p) < MapGetOr0(attackCounters, p) =>
            TurnStep \/ ResetStep("attack", p)

\* a further attack with no option re-prompts and changes no penalty
C9_Reprompt(p) ==
    /\ attackCounters'[p] = MapGetOr0(attackCounters, p) + 1
    /\ reply'.kind = "prompt"
    /\ attackPenalties' = attackPenalties

\* C9 as stated: whenever a prompt of the player is open, a further attack
\* with no option re-prompts.
C9_RepromptWhileOpen ==
    [][/\ \A p \in Players :
            (HasOpenPrompt(p) /\ AttackStep(p, NoChoice)) => C9_Reprompt(p)
       /\ C9_CounterRules]_vars

\* C9 amended: whenever a prompt of the player is open and the counter is at
\* least 1 (no reset since the player's last attack), a further attack with
\* no option re-prompts.
C9_RepromptSinceReset ==
    [][/\ \A p \in Players :
            (/\ HasOpenPrompt(p)
             /\ MapGetOr0(attackCounters, p) >= 1
             /\ AttackStep(p, NoChoice)) => C9_Reprompt(p)
       /\ C9_CounterRules]_vars

\* the third attack re-prompted while the prompt of the second is open
C9_Witness ==
    /\ reply.kind = "prompt" /\ reply.count = 3
    /\ BagCardinality(prompts) = 2

\* C10: every cast answers with a classified roll and opens no prompt.
C10_CastNeverPrompts ==
    /\ reply.op = "cast" => reply.kind = "roll" /\ reply.outcome \in Outcomes
    /\ prompts = EmptyBag

\* the third cast of a player, resolved
C10_Witness ==
    /\ reply.kind = "roll" /\ reply.op = "cast" /\ reply.count = 3
    /\ castCounters[reply.user] = 3

\* C11: the cast penalties are cumulative as for attack. Stated for two
\* casts of one player in a row (no reset between them): after a cast with
\* the gate or the blind choice the next cast has a gate of at least 2, 3
\* after blind, and after a cast with damage100 the next cast has modifier 0.
C11_CastLedgerCumulative ==
    [][(/\ reply.op = "cast" /\ reply'.op = "cast"
        /\ reply'.user = reply.user) =>
            /\ reply.manual = "gate" => reply'.gate >= 2
            /\ reply.manual = "blind" => reply'.gate = 3
            /\ reply.manual = "damage100" => reply'.finalModifier = 0]_vars

\* C12: blind is idempotent and once-only per player for attacks: applying it
\* again changes no penalty field, and once it is applied no blind choice is
\* accepted again (by the option or by a button) and no open prompt of the
\* player offers it, until a reset.
C12_BlindOnceOnly ==
    \A p \in Players :
        /\ attackChoices[p].blind <= 1
        /\ MapHas(attackPenalties, p) =>
            LET blinded == applyPenalty(attackPenalties[p], "blind")
            IN /\ applyPenalty(blinded, "blind") = blinded
               /\ attackPenalties[p].blind =>
                    \A pr \in BagToSet(prompts) :
                        pr.userId = p => pr.blindDisabled

CheckStep(player, gate) ==
    /\ reply'.op = "check" /\ reply'.user \in Players
    /\ reply'.kind = "roll" => reply'.player = player
    /\ \E displayName \in DisplayNames, dice1, dice2 \in DiceSizes,
          fetchOk \in {reply'.kind = "roll"} :
        \E roll1 \in IF reply'.kind = "roll" THEN {reply'.roll1} ELSE {1},
           roll2 \in IF reply'.kind = "roll" THEN {reply'.roll2} ELSE {1} :
            Check(reply'.user, player, displayName, dice1, dice2, gate,
                  fetchOk, roll1, roll2)

OldValue(p, field) == IF MapHas(playerData, p) THEN playerData[p][field] ELSE 0
OldStatus(p) == IF MapHas(playerData, p) THEN playerData[p].statusEffects ELSE <<>>
OthersUnchanged(p) ==
    \A q \in Players \ {p} :
        /\ MapHas(playerData', q) = MapHas(playerData, q)
        /\ MapHas(playerData, q) => playerData'[q] = playerData[q]
MaximaUnchanged(p) ==
    \A r \in Resources : playerData'[p][MaxField[r]] = OldValue(p, MaxField[r])

SetStep(player, maxima) ==
    /\ reply'.op = "set"
    /\ \E displayName \in DisplayNames, characterName \in CharacterNames,
          ok \in BOOLEAN :
            Set(reply'.user, player, displayName, characterName, maxima,
                reply'.kind = "set", ok)

Numerals == {<<(<<"-", "2", "5">>), -25>>, <<(<<"5">>), 5>>}

UpdateStep(player, resource, amount) ==
    /\ reply'.op = "update"
    /\ \E displayName \in DisplayNames, ok \in BOOLEAN :
            Update(reply'.user, player, displayName, resource, amount,
                   reply'.kind = "updated", ok)

ResourceStep(commandName, amountStr) ==
    /\ reply'.op = commandName
    /\ \E displayName \in DisplayNames, ok \in BOOLEAN :
            ResourceCommand(reply'.user, displayName, commandName, amountStr, ok)

\* the chosen value is old + delta, the other four values and the maxima
\* are as before
Adjusted(p, resource, delta) ==
    /\ playerData'[p][resource] = OldValue(p, resource) + delta
    /\ \A r \in Resources \ {resource} : playerData'[p][r] = OldValue(p, r)
    /\ MaximaUnchanged(p)

\* C16: update, and a resource command with a numeric amount, set the
\* chosen current value to exactly old + delta, below 0 and above the
\* maximum included, and reply with the update, never with an error; the
\* other four current values and all maxima are unchanged.
C16_AdjustUnclamped ==
    [][/\ \A player \in Players, resource \in SheetResources,
            amount \in SheetAmounts :
            (UpdateStep(player, resource, amount) /\ reply'.kind = "updated")
                => Adjusted(player, resource, amount)
       /\ \A commandName \in SheetCommands, numeral \in Numerals :
            ResourceStep(commandName, numeral[1]) =>
                /\ reply'.kind = "updated"
                /\ Adjusted(reply'.user, resourceMap[commandName],
                            numeral[2])]_vars

\* set with HP 20, then HP -25: current HP is -5, the rest as set
C16_Witness ==
    /\ reply.kind = "updated" /\ reply.resource = "HP" /\ reply.amount = -25
    /\ playerData[reply.player].HP = -5
    /\ playerData[reply.player].maxHP = 20
    /\ playerData[reply.player].MP = 10
    /\ playerData[reply.player].IP = 5
    /\ playerData[reply.player].Armor = 4
    /\ playerData[reply.player].Barrier = 4

RestStep ==
    /\ reply'.op = "rest"
    /\ \E displayName \in DisplayNames, ok \in BOOLEAN :
            Rest(reply'.user, displayName, ok)

CasePairs == {<<"P", "p">>, <<"O", "o">>, <<"B", "b">>}
EqualIgnoringCase(a, b) ==
    /\ Len(a) = Len(b)
    /\ \A i \in 1..Len(a) :
        \/ a[i] = b[i]
        \/ <<a[i], b[i]>> \in CasePairs
        \/ <<b[i], a[i]>> \in CasePairs
\* the entries of a list whose name is statusName ignoring case
Matches(statusEffects, statusName) ==
    {i \in 1..Len(statusEffects) :
        EqualIgnoringCase(statusEffects[i].name, statusName)}
NoDuplicateStatus ==
    \A p \in DOMAIN playerData :
        LET list == playerData[p].statusEffects
        IN \A i, j \in 1..Len(list) :
            EqualIgnoringCase(list[i].name, list[j].name) => i = j

\* the durations found in a list: status add leaves its duration in it
SetDurations(statusEffects) ==
    {d \in Durations : \E i \in 1..Len(statusEffects) :
        statusEffects[i].duration = d}

StatusAddStep(player, statusName, duration) ==
    /\ reply'.op = "status add"
    /\ reply'.kind # "error" => (reply'.player = player /\ reply'.name = statusName)
    /\ \E displayName \in DisplayNames, ok \in {stored' # stored} :
            StatusAdd(reply'.user, player, displayName, statusName, duration,
                      reply'.kind # "error", ok)

\* C19: status add matches names ignoring case: an entry with the name
\* keeps its place and its stored name and takes the new duration, the list
\* keeping its length and order; without such an entry the new one is
\* appended at the end; and no reachable status list holds two entries
\* whose names are equal ignoring case.
C19_StatusAddIgnoresCase ==
    [][/\ NoDuplicateStatus'
       /\ (reply'.op = "status add" /\ reply'.kind # "error") =>
          \A player \in {reply'.player}, statusName \in {reply'.name},
             duration \in SetDurations(playerData'[reply'.player].statusEffects) :
            StatusAddStep(player, statusName, duration) =>
                LET old == OldStatus(player)
                    new == playerData'[player].statusEffects
                    found == Matches(old, statusName)
                IN IF found # {}
                   THEN /\ Len(new) = Len(old)
                        /\ \A i \in 1..Len(old) :
                            /\ new[i].name = old[i].name
                            /\ new[i].duration = IF i \in found THEN duration
                                                 ELSE old[i].duration
                   ELSE new = Append(old, [name |-> statusName,
                                           duration |-> duration])]_vars

\* "po" has just been added over the stored "Po", which kept its place
\* before "B" and its spelling
C19_Witness ==
    /\ reply.kind = "statusUpdated" /\ reply.name = <<"p", "o">>
    /\ playerData[reply.player].statusEffects =
            <<[name |-> <<"P", "o">>, duration |-> 2],
              [name |-> <<"B">>, duration |-> 1]>>

StatusClearStep(player, statusName) ==
    /\ reply'.op = "status clear"
    /\ reply'.kind # "error" => (reply'.player = player /\ reply'.name = statusName)
    /\ \E displayName \in DisplayNames, ok \in BOOLEAN :
            StatusClear(reply'.user, player, displayName, statusName,
                        reply'.kind # "error", ok)

\* C20: status clear with a name that matches no entry ignoring case
\* answers that the status is not there and leaves the list as it was;
\* with a matching name it removes that one entry and keeps the others in
\* their order.
C20_StatusClear ==
    [][(reply'.op = "status clear" /\ reply'.kind # "error") =>
        \A player \in {reply'.player}, statusName \in {reply'.name} :
          StatusClearStep(player, statusName) =>
            LET old == OldStatus(player)
                new == playerData'[player].statusEffects
                found == Matches(old, statusName)
            IN IF found = {}
               THEN reply'.kind = "notFound" /\ new = old
               ELSE /\ reply'.kind = "statusRemoved"
                    /\ \E i \in found :
                        new = SubSeq(old, 1, i - 1)
                                \o SubSeq(old, i + 1, Len(old))]_vars

\* "Po" has just been cleared from a list that keeps its entry "B"
C20_Witness ==
    /\ reply.kind = "statusRemoved" /\ reply.name = <<"P", "o">>
    /\ playerData[reply.player].statusEffects =
            <<[name |-> <<"B">>, duration |-> 2]>>

\* ------------------------------------------------------- maxima claim
\* C18: the max fields of a record that exists before and after a step
\* change only when the step is a set on that record: update, the resource
\* commands, rest, damage, turn, status add and clear, tick, attack, cast,
\* check, a penalty button and the clash commands leave them as they were.
C18_MaximaOnlyBySet ==
    [][\A p \in DOMAIN playerData \cap DOMAIN playerData' :
        \/ \A r \in Resources :
                playerData'[p][MaxField[r]] = playerData[p][MaxField[r]]
        \/ \E maxima \in SheetMaxima : SetStep(p, maxima)]_vars

\* damage has just worn down a set record's Armor and HP in a running
\* clash, after attacks, and the maxima are those of the set
C18_Witness ==
    /\ reply.op = "damage"
    /\ activeEncounter.active /\ Len(activeEncounter.combatants) = 1
    /\ MapGetOr0(attackCounters, Attacker) = 2
    /\ MapHas(playerData, Attacker)
    /\ playerData[Attacker].Armor = 0 /\ playerData[Attacker].HP = 4
    /\ \A r \in Resources : playerData[Attacker][MaxField[r]] = Rowan[r]

\* ----------------------------------------------------------- tick claim
TickStep(player) ==
    /\ reply'.op = "tick"
    /\ reply'.kind = "ticked" => reply'.player = player
    /\ \E displayName \in DisplayNames, ok \in BOOLEAN :
            Tick(reply'.user, player, displayName, reply'.kind # "error", ok)

\* the entries of a list that outlive a tick, one turn shorter
Outliving(statusEffects) ==
    LET kept == SelectSeq(statusEffects, LAMBDA e : e.duration >= 2)
    IN [i \in 1..Len(kept) |->
            [name |-> kept[i].name, duration |-> kept[i].duration - 1]]
\* the names of the entries that a tick ends
Ending(statusEffects) ==
    LET gone == SelectSeq(statusEffects, LAMBDA e : e.duration <= 1)
    IN [i \in 1..Len(gone) |-> gone[i].name]

\* C21: a tick on a player with status effects lowers every duration by
\* exactly 1, removes exactly the entries whose duration is then 0 or less
\* and reports their names as expired; so an entry of duration d >= 1 stays
\* through d-1 ticks and goes, reported, on the d-th.
C21_TickExpires ==
    [][(reply'.op = "tick" /\ reply'.kind # "error") =>
        \A player \in Players :
          TickStep(player) =>
            LET old == OldStatus(player)
                new == playerData'[player].statusEffects
            IN IF old = <<>>
               THEN reply'.kind = "noStatus" /\ new = old
               ELSE /\ reply'.kind = "ticked"
                    /\ new = Outliving(old)
                    /\ reply'.expired = Ending(old)]_vars

\* one tick before the end: the entry added with duration 3 is still there
\* with one turn left, next to nothing expired
C21_Witness ==
    /\ reply.kind = "ticked" /\ reply.expired = <<>>
    /\ playerData[reply.player].statusEffects =
            <<[name |-> <<"B">>, duration |-> 1]>>

\* --------------------------------------------------------- delete claim
DeleteStep(player) ==
    /\ reply'.op = "delete"
    /\ \E ok \in BOOLEAN : Delete(reply'.user, player, ok)

\* the record of p is one the step created from nothing: ten zeros and no
\* status effect, but for the amount an update has just added
FreshRecord(p) ==
    /\ \A r \in Resources :
        /\ playerData'[p][MaxField[r]] = 0
        /\ playerData'[p][r] =
                IF reply'.kind = "updated" /\ reply'.resource = r
                THEN reply'.amount ELSE 0
    /\ playerData'[p].statusEffects = <<>>

\* C22: delete of an id with a record removes the record from the store
\* and leaves the other records; delete of an id without a record answers
\* not-found and changes nothing; and a record that a later view or update
\* creates for an id starts from ten zeros and an empty status list.
C22_DeleteRemoves ==
    [][/\ reply'.op = "delete" =>
            \A player \in {reply'.player} :
                DeleteStep(player) =>
                    IF MapHas(playerData, player)
                    THEN /\ reply'.kind = "deleted"
                         /\ ~MapHas(playerData', player)
                         /\ OthersUnchanged(player)
                    ELSE /\ reply'.kind = "notFound"
                         /\ UNCHANGED <<playerData, activeEncounter, stored>>
       /\ reply'.op \in {"view", "update"} =>
            \A p \in DOMAIN playerData' \ DOMAIN playerData : FreshRecord(p)]_vars

\* a record has just been deleted next to another player's set record
C22_Witness ==
    /\ reply.kind = "deleted" /\ reply.player = Attacker
    /\ ~MapHas(playerData, Attacker)
    /\ MapHas(playerData, "22") /\ playerData["22"].HP = 0
    /\ playerData["22"].maxHP = 20

\* ---------------------------------------------------------- clash claims
StartStep ==
    /\ reply'.op = "clash start"
    /\ \E ok \in BOOLEAN : ClashStart(reply'.user, ok)

EndStep ==
    /\ reply'.op = "clash end"
    /\ \E ok \in BOOLEAN : ClashEnd(reply'.user, ok)

\* C23: clash start without a running clash makes the clash active with an
\* empty roster; with a running clash it answers already-active and leaves
\* flag and roster; clash end with a running clash makes it inactive with
\* an empty roster; without one it answers not-active and changes nothing.
C23_ClashTwoStates ==
    [][/\ StartStep =>
            IF ~activeEncounter.active
            THEN /\ reply'.kind = "started"
                 /\ activeEncounter' = [active |-> TRUE, combatants |-> <<>>]
            ELSE /\ reply'.kind = "alreadyActive"
                 /\ UNCHANGED <<activeEncounter, playerData, stored>>
       /\ EndStep =>
            IF activeEncounter.active
            THEN /\ reply'.kind = "ended"
                 /\ activeEncounter' = [active |-> FALSE, combatants |-> <<>>]
            ELSE /\ reply'.kind = "notActive"
                 /\ UNCHANGED <<activeEncounter, playerData, stored>>]_vars

\* a start has just been refused in a clash of two combatants
C23_Witness ==
    /\ reply.kind = "alreadyActive"
    /\ activeEncounter.active
    /\ activeEncounter.combatants = <<"11", "22">>

\* the ids of a sequence
Ids(seq) == {seq[i] : i \in 1..Len(seq)}
NoDuplicates(seq) == \A i, j \in 1..Len(seq) : seq[i] = seq[j] => i = j

\* the roster after a request: each target in request order is appended
\* unless it has no record or is in the roster by then
RECURSIVE Enrolled(_, _)
Enrolled(roster, targets) ==
    IF targets = <<>> THEN roster
    ELSE Enrolled(IF MapHas(playerData, Head(targets))
                        /\ Head(targets) \notin Ids(roster)
                     THEN Append(roster, Head(targets)) ELSE roster,
                  Tail(targets))

AddStep(playersInput) ==
    /\ reply'.op = "clash add"
    /\ \E fetched \in ClashFetched, ok \in BOOLEAN :
            ClashAdd(reply'.user, playersInput, fetched, ok)

\* C24: clash add without a running clash is refused and changes nothing;
\* with one, every named id that has no record or is in the roster is
\* reported and skipped, every other id is appended at the end in request
\* order; and the roster never holds an id twice.
C24_AddCombatants ==
    [][/\ NoDuplicates(activeEncounter'.combatants)
       /\ reply'.op = "clash add" =>
            \A playersInput \in ClashInputs :
                AddStep(playersInput) =>
                    LET targets == targetPlayers(playersInput, reply'.user)
                    IN IF ~activeEncounter.active
                       THEN /\ reply'.kind = "noClash"
                            /\ UNCHANGED <<activeEncounter, playerData, stored>>
                       ELSE /\ activeEncounter'.combatants =
                                Enrolled(activeEncounter.combatants, targets)
                            /\ \A id \in Ids(targets) :
                                (\/ ~MapHas(playerData, id)
                                 \/ id \in Ids(activeEncounter.combatants))
                                    => id \in Ids(reply'.noData)
                                            \cup Ids(reply'.alreadyIn)]_vars

RemoveStep(playersInput) ==
    /\ reply'.op = "clash remove"
    /\ \E ok \in BOOLEAN : ClashRemove(reply'.user, playersInput, ok)

\* how many of the targets are not in the roster when their turn comes:
\* every mention of an id outside the roster and every repeated mention
RECURSIVE Missing(_, _)
Missing(roster, targets) ==
    IF targets = <<>> THEN 0
    ELSE IF Head(targets) \in Ids(roster)
    THEN Missing(SelectSeq(roster, LAMBDA id : id # Head(targets)),
                 Tail(targets))
    ELSE 1 + Missing(roster, Tail(targets))

C26_StoreFollowsMemory ==
    /\ loadData(stored).players = playerData
    /\ loadData(stored).encounter = activeEncounter

\* the step is the command with its save failing
SetFails(player, maxima) ==
    /\ reply'.op = "set"
    /\ \E displayName \in DisplayNames, characterName \in CharacterNames :
            Set(reply'.user, player, displayName, characterName, maxima,
                TRUE, FALSE)
UpdateFails(player, resource, amount) ==
    /\ reply'.op = "update"
    /\ \E displayName \in DisplayNames :
            Update(reply'.user, player, displayName, resource, amount, TRUE,
                   FALSE)
StartFails ==
    /\ reply'.op = "clash start"
    /\ ClashStart(reply'.user, FALSE)

\* C27: a save that fails is not escalated: set, update and clash start
\* whose save fails still make their change in memory and give their
\* normal answer, and the next command works on the changed memory (an
\* update adds to the value the failed update left).
C27_FailedFlushKeepsMemory ==
    [][/\ \A player \in Players :
            /\ SetFails(player, Rowan) =>
                /\ reply'.kind = "set"
                /\ \A r \in Resources :
                        playerData'[player][MaxField[r]] = Rowan[r]
            /\ UpdateFails(player, "HP", 0 - TableDamage) =>
                /\ reply'.kind = "updated"
                /\ Adjusted(player, "HP", 0 - TableDamage)
       /\ (StartFails /\ ~activeEncounter.active) =>
            /\ reply'.kind = "started"
            /\ activeEncounter'.active]_vars

\* a set and two updates, every save having failed: memory holds them, the
\* store nothing
C27_Witness ==
    /\ reply.kind = "updated"
    /\ playerData[Attacker].HP = 0 - TableDamage
    /\ playerData[Attacker].maxHP = Rowan.HP
    /\ stored.players = EmptyMap

\* what a stored state says: its players (a NULL status_effects is the
\* empty list, a document without "players" is the map of the players) and
\* its encounter (a missing one is inactive and empty)
StoredPlayers(st) ==
    IF st.backend = "database"
    THEN [id \in DOMAIN st.players |->
            [key \in DOMAIN st.players[id] \cup {"status_effects"} |->
                IF key \in DOMAIN st.players[id] THEN st.players[id][key]
                ELSE <<>>]]
    ELSE IF "players" \in DOMAIN st THEN st.players
    ELSE [id \in DOMAIN st \ {"backend"} |-> st[id]]

StoredEncounter(st) ==
    IF "encounter" \notin DOMAIN st
    THEN [active |-> FALSE, combatants |-> <<>>]
    ELSE [active |-> st.encounter.active,
          combatants |-> IF "combatants" \in DOMAIN st.encounter
                         THEN st.encounter.combatants ELSE <<>>]

GMOnly == {"reset", "clash start", "clash end", "turn", "resetpenalty"}

\* C29: reset, clash start, clash end, turn and resetpenalty requested by a
\* member who is no game master are answered Unauthorized and leave the
\* players, the encounter, the counters and the penalties as they were
C29_GMOnly ==
    [][(reply'.op \in GMOnly /\ reply'.user \notin GameMasters) =>
        /\ reply'.kind = "unauthorized"
        /\ UNCHANGED <<playerData, activeEncounter, attackCounters,
                       castCounters, attackPenalties, castPenalties>>]_vars

\* C30: a click on a prompt whose handler has run already, the update not
\* yet applied, adds no penalty and resolves no roll
C30_ResumeConsumes ==
    [][(reply'.op = "button" /\ \E m \in BagToSet(prompts) : IsEdit(m)) =>
        /\ attackPenalties' = attackPenalties
        /\ reply'.kind # "roll"]_vars

\* the choices applied for one player since the last reset, counted
ChoicesApplied(h) == h.gate + h.damage50 + h.damage100 + h.blind

\* C31: for every player the attack penalty choices applied since the
\* player's last reset are at most as many as the player's attacks since
\* then
C31_ChoicesWithinAttempts ==
    \A p \in Players :
        ChoicesApplied(attackChoices[p]) <= MapGetOr0(attackCounters, p)

\* C32: an encounter that is not active has an empty roster, whatever the
\* order in which the requests run between their awaits
C32_InactiveRosterEmpty ==
    ~activeEncounter.active => activeEncounter.combatants = <<>>

\* C33: every id in the roster has a record, and /clash list shows as many
\* combatants as it counts
C33_RosterHasRecords ==
    /\ \A i \in 1..Len(activeEncounter.combatants) :
            MapHas(playerData, activeEncounter.combatants[i])
    /\ reply.kind = "list" => Len(reply.shown) = reply.count

\* C34: with the database, once no query is outstanding, the rows are the
\* players in memory with their values: no row of a deleted player is left
\* when its DELETE has run
C34_LastWriteWins ==
    prompts = EmptyBag =>
        /\ loadData(stored).players = playerData
        /\ reply.kind = "deleted" => ~MapHas(stored.players, reply.player)

\* C35: turn without an active clash answers noClash, turn in a clash
\* without combatants answers noCombatants, and both leave the counters, the
\* penalties, the records, the encounter and the store as they were
C35_TurnRefused ==
    [][reply'.op = "turn" =>
        /\ ~activeEncounter.active => reply'.kind = "noClash"
        /\ (activeEncounter.active /\ Len(activeEncounter.combatants) = 0) =>
                reply'.kind = "noCombatants"
        /\ (~activeEncounter.active \/ Len(activeEncounter.combatants) = 0) =>
                UNCHANGED <<playerData, activeEncounter, stored, attackCounters,
                            castCounters, attackPenalties, castPenalties>>]_vars

\* turn refused in a clash without combatants, after an attack with a
\* penalty, a cast and damage
C35_Witness ==
    /\ reply.op = "turn" /\ reply.kind = "noCombatants"
    /\ MapGetOr0(attackCounters, Attacker) = 1
    /\ MapGetOr0(castCounters, Defender) = 1
    /\ MapHas(attackPenalties, Attacker) /\ attackPenalties[Attacker].gate = 1
    /\ MapHas(playerData, Defender)
    /\ playerData[Defender].Armor < playerData[Defender].maxArmor

\* C36: a successful turn puts Armor and Barrier of every combatant with a
\* record at the record's maxima and changes no other field of it, no
\* field of a player who is not in the roster, and not the roster
C36_TurnRefills ==
    [][(reply'.op = "turn" /\ reply'.kind = "turn") =>
        /\ activeEncounter' = activeEncounter
        /\ DOMAIN playerData' = DOMAIN playerData
        /\ \A p \in DOMAIN playerData :
            IF \E i \in 1..Len(activeEncounter.combatants) :
                    activeEncounter.combatants[i] = p
            THEN /\ playerData'[p].Armor = playerData[p].maxArmor
                 /\ playerData'[p].Barrier = playerData[p].maxBarrier
                 /\ [playerData'[p] EXCEPT !.Armor = playerData[p].Armor,
                                           !.Barrier = playerData[p].Barrier]
                        = playerData[p]
            ELSE playerData'[p] = playerData[p]]_vars

\* a turn in a clash of the damaged defender alone, the attacker's sheet
\* with its status effect outside the roster
C36_Witness ==
    /\ reply.op = "turn" /\ reply.kind = "turn"
    /\ activeEncounter.combatants = <<Defender>>
    /\ MapHas(playerData, Defender)
    /\ playerData[Defender].Armor = Rowan.Armor
    /\ playerData[Defender].Barrier = Rowan.Barrier
    /\ playerData[Defender].HP = Rowan.HP - 8
    /\ MapHas(playerData, Attacker)
    /\ Len(playerData[Attacker].statusEffects) = 1

\* protection and HP after n hits of d on protection p and HP hp
RECURSIVE Damaged(_, _, _, _)
Damaged(protection, hp, d, n) ==
    IF n = 0 THEN [protection |-> protection, HP |-> hp]
    ELSE Damaged(Max(0, protection - d), hp - Max(0, d - protection), d, n - 1)

\* C37: damage d >= 0 on a protection p >= 0 leaves max(0, p - d) of it and
\* takes max(0, d - p) from HP, once for every time the target is named;
\* nothing else of the target and nothing of any other player changes
C37_DamageProtectionFirst ==
    [][reply'.op = "damage" =>
        \A q \in Players :
            LET n == Cardinality({i \in 1..Len(reply'.results) :
                                    reply'.results[i] = q})
                expected == Damaged(OldValue(q, reply'.type),
                                    OldValue(q, "HP"), reply'.amount, n)
            IN IF n = 0
               THEN /\ MapHas(playerData', q) = MapHas(playerData, q)
                    /\ MapHas(playerData, q) => playerData'[q] = playerData[q]
               ELSE (reply'.amount >= 0 /\ OldValue(q, reply'.type) >= 0) =>
                    /\ MapHas(playerData', q)
                    /\ playerData'[q][reply'.type] = expected.protection
                    /\ playerData'[q][reply'.type] >= 0
                    /\ playerData'[q].HP = expected.HP
                    /\ MapHas(playerData, q) =>
                        [playerData'[q] EXCEPT
                            ![reply'.type] = playerData[q][reply'.type],
                            !.HP = playerData[q].HP] = playerData[q]]_vars

\* 6 damage on the armor of a defender named twice: the first hit takes the
\* 4 armor and 2 HP, the second 6 HP
C37_Witness ==
    /\ reply.op = "damage" /\ reply.amount = 6 /\ reply.type = "Armor"
    /\ reply.results = <<Defender, Defender>>
    /\ playerData[Defender].Armor = 0
    /\ playerData[Defender].Barrier = Rowan.Barrier
    /\ playerData[Defender].HP = Rowan.HP - 8

\* the sheet values of a player: current, maximum, status effects; zeros
\* and no effect for a player without a record
SheetOf(pd, p) ==
    [current |-> [r \in Resources |-> IF MapHas(pd, p) THEN pd[p][r] ELSE 0],
     maxima |-> [r \in Resources |->
                    IF MapHas(pd, p) THEN pd[p][MaxField[r]] ELSE 0],
     status |-> IF MapHas(pd, p) THEN pd[p].statusEffects ELSE <<>>]

\* C38: attack, cast, check and a click on a prompt change no current value,
\* no maximum and no status effect of any player; an attack and a click
\* change no cast counter or penalty, a cast no attack counter or penalty
C38_RollsLeaveSheets ==
    [][/\ reply'.op \in {"attack", "cast", "check", "button"} =>
            \A p \in Players : SheetOf(playerData', p) = SheetOf(playerData, p)
       /\ reply'.op \in {"attack", "button"} =>
            UNCHANGED <<castCounters, castPenalties>>
       /\ reply'.op = "cast" =>
            UNCHANGED <<attackCounters, attackPenalties>>]_vars

\* the second cast of a player whose MP is at its maximum, after two
\* attacks with penalties, the sheet carrying a status effect
C38_Witness ==
    /\ reply.op = "cast" /\ reply.kind = "roll" /\ reply.count = 2
    /\ MapHas(playerData, Attacker)
    /\ playerData[Attacker].MP = Rowan.MP
    /\ playerData[Attacker].HP = Rowan.HP - TableDamage
    /\ Len(playerData[Attacker].statusEffects) = 1
    /\ MapGetOr0(attackCounters, Attacker) = 2
    /\ MapHas(attackPenalties, Attacker) /\ attackPenalties[Attacker].gate = 2

\* C39: the gate of a resolved attack roll is never above 3, the gate of
\* blind
C39_GateAtMostBlind ==
    AttackRoll => reply.gate <= 3
====
